---- MODULE Spec2Model ----
(***************************************************************************)
(* Observability pipeline of mkit_input_voucher: the four request          *)
(* middlewares of src/core/middlewares.py, the two exception handlers of   *)
(* src/core/exceptions.py, and the application assembled in src/main.py.   *)
(*                                                                         *)
(* Encoding of Python values.                                              *)
(*   None is <<>>; a str or number v that may also be None is <<v>>.       *)
(*   Strings that are split or formatted (header values, client_ip, the    *)
(*   X-Process-Time text) are sequences of one-character strings.          *)
(*   request.state is a function whose DOMAIN is the set of attributes     *)
(*   that have been set, so hasattr is membership in DOMAIN; the values    *)
(*   it holds, and header values, are in the optional form above.          *)
(*   time.perf_counter() readings are microseconds; duration_ms is kept    *)
(*   in thousandths of a millisecond, so (t1 - t0) * 1000 ms is t1 - t0.   *)
(***************************************************************************)
EXTENDS Integers, Sequences, FiniteSets, TLC

\* Requests served one after the other by one run of the model.
MaxRequests == 2

\* Increments a perf_counter() reading can show over the previous reading.
Ticks == {0, 2346}

None == <<>>

Some(v) == <<v>>

\* Python truthiness of an optional str or int: None, "" and 0 are falsy.
TruthyStr(v) == v # None /\ v[1] # ""

TruthyInt(v) == v # None /\ v[1] # 0

\* str(uuid4()): the n-th identifier drawn; distinct draws give distinct,
\* non-empty strings.
Uuid4Str(n) == "uuid-" \o ToString(n)

\* ------------------------------------------------------------------------
\* request.state

EmptyState == [a \in {} |-> None]

SetAttr(st, name, v) == [a \in (DOMAIN st) \cup {name} |-> IF a = name THEN v ELSE st[a]]

HasAttr(st, name) == name \in DOMAIN st

\* getattr(request.state, name, default)
GetAttr(st, name, default) == IF name \in DOMAIN st THEN st[name] ELSE default

\* ------------------------------------------------------------------------
\* response.headers: an ordered list of <<name, value>>; assignment replaces
\* the value of an existing name and appends a new one otherwise.

HasHeader(hs, name) == \E i \in 1..Len(hs) : hs[i][1] = name

HeaderCount(hs, name) == Cardinality({i \in 1..Len(hs) : hs[i][1] = name})

GetHeader(hs, name) == hs[CHOOSE i \in 1..Len(hs) : hs[i][1] = name][2]

SetHeader(hs, name, v) ==
    IF HasHeader(hs, name)
    THEN [i \in 1..Len(hs) |-> IF hs[i][1] = name THEN <<name, v>> ELSE hs[i]]
    ELSE Append(hs, <<name, v>>)

\* ------------------------------------------------------------------------
\* f"{duration:.2f}ms"

Digit(d) == <<"0", "1", "2", "3", "4", "5", "6", "7", "8", "9">>[d + 1]

RECURSIVE DigitsOf(_)
DigitsOf(n) == IF n < 10 THEN <<Digit(n)>> ELSE Append(DigitsOf(n \div 10), Digit(n % 10))

\* Thousandths rounded to hundredths, ties to even.
RoundHundredths(a) ==
    LET q == a \div 10
        r == a % 10
    IN  IF r > 5 \/ (r = 5 /\ q % 2 = 1) THEN q + 1 ELSE q

FormatMs(d) ==
    LET a == IF d < 0 THEN 0 - d ELSE d
        h == RoundHundredths(a)
        sign == IF d < 0 THEN <<"-">> ELSE <<>>
    IN  sign \o DigitsOf(h \div 100) \o <<".">>
             \o <<Digit((h % 100) \div 10), Digit(h % 10)>> \o <<"m", "s">>

\* ------------------------------------------------------------------------
\* Exceptions

\* Classes the endpoint may raise; CancelledError derives from BaseException
\* only, the others from Exception.
ExceptionClasses == {"AppExceptionsError", "ValueError", "RuntimeError", "CancelledError"}

IsException(cls) == cls # "CancelledError"

IsAppExceptionsError(cls) == cls = "AppExceptionsError"

DefaultMessage == "An application error occurred"

\* AppExceptionsError.__init__: context is [kind |-> "none"],
\* [kind |-> "dict", d |-> mapping] or [kind |-> "other", v |-> value].
NormalizeContext(context) ==
    IF context.kind = "dict" THEN context.d
    ELSE IF context.kind = "none" THEN [k \in {} |-> ""]
    ELSE [k \in {"detail"} |-> context.v]

\* uuid is the identifier uuid4() would return if it is called.
AppExceptionsError(message, status_code, context, trace_id, uuid) ==
    [cls |-> "AppExceptionsError",
     msg |-> IF TruthyStr(message) THEN message[1] ELSE DefaultMessage,
     trace_id |-> IF TruthyStr(trace_id) THEN trace_id ELSE Some(uuid),
     status_code |-> IF TruthyInt(status_code) THEN status_code ELSE Some(500),
     context |-> NormalizeContext(context)]

to_dict(exc) ==
    [message |-> exc.msg,
     status_code |-> exc.status_code,
     context |-> exc.context,
     trace_id |-> exc.trace_id]

PlainException(cls, msg) == [cls |-> cls, msg |-> msg]

\* ------------------------------------------------------------------------
\* Outcomes of a call: a response, or a raised exception.

Returned(resp) == [kind |-> "response", response |-> resp]

Raised(exc) == [kind |-> "raise", exc |-> exc]

NoOutcome == [kind |-> "none"]

\* JSONResponse(status_code, content, headers): header values are encoded
\* as text, which a None value does not support.
JSONResponse(status_code, content, headers) ==
    IF \E i \in 1..Len(headers) : headers[i][2] = None
    THEN Raised(PlainException("AttributeError", "encode"))
    ELSE Returned([status_code |-> status_code, content |-> content, headers |-> headers])

\* ------------------------------------------------------------------------
\* str.split(",")[0] and str.strip() on character sequences

RECURSIVE FirstToken(_)
FirstToken(s) ==
    IF s = <<>> \/ Head(s) = "," THEN <<>> ELSE <<Head(s)>> \o FirstToken(Tail(s))

IsSpace(c) == c = " "

RECURSIVE LStrip(_)
LStrip(s) == IF s # <<>> /\ IsSpace(Head(s)) THEN LStrip(Tail(s)) ELSE s

RECURSIVE RStrip(_)
RStrip(s) ==
    IF s # <<>> /\ IsSpace(s[Len(s)]) THEN RStrip(SubSeq(s, 1, Len(s) - 1)) ELSE s

Strip(s) == RStrip(LStrip(s))

Unknown == <<"u", "n", "k", "n", "o", "w", "n">>

\* request.headers.get(name): None when the header is absent.
HeaderGet(req, name) ==
    IF name \in DOMAIN req.headers THEN Some(req.headers[name]) ELSE None

\* Variant: the first token is taken as it stands, blanks included.
get_ip_untrimmed(req) ==
    LET forwarded == HeaderGet(req, "x-forwarded-for")
        real == HeaderGet(req, "x-real-ip")
    IN  IF forwarded # None /\ forwarded[1] # <<>>
        THEN FirstToken(forwarded[1])
        ELSE IF real # None /\ real[1] # <<>>
        THEN real[1]
        ELSE IF req.client # None THEN req.client[1] ELSE Unknown

\* ClientInfoMiddleware._get_ip
get_ip(req) ==
    LET forwarded == HeaderGet(req, "x-forwarded-for")
        real == HeaderGet(req, "x-real-ip")
    IN  IF forwarded # None /\ forwarded[1] # <<>>
        THEN Strip(FirstToken(forwarded[1]))
        ELSE IF real # None /\ real[1] # <<>>
        THEN real[1]
        ELSE IF req.client # None THEN req.client[1] ELSE Unknown

\* request.headers.get("user-agent", "unknown")
get_user_agent(req) ==
    IF "user-agent" \in DOMAIN req.headers THEN req.headers["user-agent"] ELSE Unknown

\* ------------------------------------------------------------------------
\* The exception handlers of src/core/exceptions.py.  Each yields the
\* outcome of the call, the exception object as the call leaves it, and the
\* record it logs.

Repr(exc) ==
    [cls |-> exc.cls, status |-> exc.status_code, msg |-> exc.msg, trace_id |-> exc.trace_id]

ErrorHeaders(st, trace_id) ==
    LET base == <<<<"X-Trace-ID", trace_id>>>>
    IN  IF HasAttr(st, "duration_ms")
        THEN SetHeader(base, "X-Process-Time", Some(FormatMs(st["duration_ms"][1])))
        ELSE base

\* Variant: the error keeps the trace id it was constructed with.
ResolveTraceIdOfError(st, exc) == exc.trace_id

ResolveTraceId(st, exc) == GetAttr(st, "trace_id", exc.trace_id)

app_exception_handler(req, st, exc) ==
    LET trace_id == ResolveTraceId(st, exc)
        exc2 == [exc EXCEPT !.trace_id = trace_id]
    IN  [exc |-> exc2,
         record |->
            [src |-> "app_exception_handler", level |-> "ERROR",
             trace_id |-> trace_id, path |-> req.path, method |-> req.method,
             duration_ms |-> GetAttr(st, "duration_ms", None),
             client_ip |-> GetAttr(st, "client_ip", None),
             user_agent |-> GetAttr(st, "user_agent", None),
             message |-> [repr |-> Repr(exc2), context |-> exc2.context]],
         outcome |->
            JSONResponse(exc2.status_code, [error |-> to_dict(exc2)],
                         ErrorHeaders(st, trace_id))]

\* Variant: the failure's own message is sent to the client.
UnhandledContentWithMessage(exc, trace_id) ==
    [error |-> [message |-> exc.msg, type |-> exc.cls, trace_id |-> trace_id]]

\* The JSON content of the fixed 500 response.
UnhandledContent(exc, trace_id) ==
    [error |-> [message |-> "Internal server error",
                type |-> exc.cls,
                trace_id |-> trace_id]]

\* uuid is the identifier the uuid4() call in the getattr default returns.
unhandled_exception_handler(req, st, exc, uuid) ==
    LET trace_id == GetAttr(st, "trace_id", Some(uuid))
    IN  [exc |-> exc,
         record |->
            [src |-> "unhandled_exception_handler", level |-> "ERROR",
             trace_id |-> trace_id, path |-> req.path, method |-> req.method,
             duration_ms |-> GetAttr(st, "duration_ms", None),
             client_ip |-> GetAttr(st, "client_ip", None),
             user_agent |-> GetAttr(st, "user_agent", None),
             exc_info |-> TRUE,
             message |-> [prefix |-> "UNHANDLED ERROR: ", exc |-> exc.msg]],
         outcome |->
            JSONResponse(Some(500), UnhandledContent(exc, trace_id),
                         ErrorHeaders(st, trace_id))]

\* ------------------------------------------------------------------------
\* The application of src/main.py

\* Variant: a middleware added later is wrapped by those added before it.
add_middleware_inside(stack, cls) == Append(stack, cls)

\* app.add_middleware(cls): the framework inserts the class at the front of
\* its list, and the list is wrapped front-outermost around the router.
add_middleware(stack, cls) == <<cls>> \o stack

\* main.py lines 25-28, outermost first.
Stack ==
    add_middleware(
        add_middleware(
            add_middleware(
                add_middleware(<<>>, "TraceIDMiddleware"),
                "RequestTimingMiddleware"),
            "ClientInfoMiddleware"),
        "RequestLoggingMiddleware")

\* main.py lines 30-35: the handler registered for AppExceptionsError runs in
\* the exception middleware that wraps the router, inside every middleware
\* of Stack; the handler registered for Exception runs in the server-error
\* middleware, outside every middleware of Stack.
RouterHandles(cls) == IsAppExceptionsError(cls)

ServerErrorHandles(cls) == IsException(cls)

\* ------------------------------------------------------------------------
\* Inputs

ForwardedValues == {<<>>, <<"1", ",", "2">>, <<" ", "1", " ", ",", "2">>, <<",", "2">>}

RealIpValues == {<<"9">>}

PeerHosts == {<<"7">>}

UserAgents == {<<"c", "u", "r", "l">>}

HeaderSets ==
    {h \in [{"x-forwarded-for", "x-real-ip", "user-agent"} -> {None} \cup
              {Some(v) : v \in ForwardedValues \cup RealIpValues \cup UserAgents}] :
        /\ h["x-forwarded-for"] \in {None} \cup {Some(v) : v \in ForwardedValues}
        /\ h["x-real-ip"] \in {None} \cup {Some(v) : v \in RealIpValues}
        /\ h["user-agent"] \in {None} \cup {Some(v) : v \in UserAgents}}

\* The headers mapping of a request: only the headers that were sent.
HeadersOf(h) == [n \in {m \in DOMAIN h : h[m] # None} |-> h[n][1]]

\* An X-Trace-ID header the client sends with its request.
ClientTraceIds == {None, Some("client-id")}

WithTraceId(headers, t) ==
    IF t = None THEN headers
    ELSE [n \in (DOMAIN headers) \cup {"x-trace-id"} |->
            IF n = "x-trace-id" THEN t[1] ELSE headers[n]]

Requests ==
    {[method |-> "GET", path |-> "/health", headers |-> WithTraceId(HeadersOf(h), t),
      client |-> c] :
        h \in HeaderSets, t \in ClientTraceIds, c \in {None} \cup {Some(p) : p \in PeerHosts}}

Messages == {None, Some("Not found")}

StatusCodes == {None, Some(0), Some(404)}

Contexts ==
    {[kind |-> "none"], [kind |-> "other", v |-> "overloaded"],
     [kind |-> "dict", d |-> [k \in {"reason"} |-> "test"]]}

\* The context of the errors a route raises (HandlerSpec gives the handler
\* errors of every context kind).
RouteContexts == {c \in Contexts : c.kind = "none"}

TraceIdArgs == {None, Some("caller-id")}

FailureClasses == {"ValueError", "RuntimeError"}

FailureMessages == {"boom", "secret"}

\* ------------------------------------------------------------------------
\* State

VARIABLES
    pc,         \* where the request in flight is
    idx,        \* index in Stack of the middleware about to run
    served,     \* requests started so far
    request,    \* the request in flight
    state,      \* request.state of the request in flight
    trace_local,    \* TraceIDMiddleware.dispatch: trace_id
    start_local,    \* RequestTimingMiddleware.dispatch: start
    outcome,    \* what the inner application gave the middleware about to run
    sent,       \* the response the client receives, None while there is none
    escaped,    \* the exception that leaves the application, None if none
    raised,     \* the exception object as the route handler raised it, None if none
    handled,    \* the exception object an exception handler was called with, as left by it
    log,        \* records given to the logger for this request, in order
    events,     \* what each middleware did for this request, in order
    clock,      \* last reading of time.perf_counter()
    uuids,      \* number of uuid4() calls so far
    issued,     \* X-Trace-ID values of the responses sent so far, all requests
    writes,     \* attributes set on request.state for this request, in order
    tasks,      \* the requests handled concurrently, each with its own request.state
    metrics,    \* MetricsCollector.metrics: the samples kept under each metric name
    capacity,   \* MetricsCollector.max_metrics_per_type
    lock,       \* MetricsCollector._lock: the thread holding it, None when free
    threads,    \* the threads calling the collector: where each is in its call
    file,       \* what the path given to save_metrics holds
    applied,    \* the calls that acted on the store, in the order they did
    calls,      \* number of calls of the collector started so far
    heap,       \* the dict objects alive, by identity
    given,      \* the context argument a caller constructs an error with
    constructed,    \* the AppExceptionsError constructed from it, None before
    wrapped,    \* the call of a decorated function in progress
    handlers,   \* the sinks attached to the loguru logger, in the order they were added
    levels,     \* the custom levels registered with the logger
    initialized,    \* LoguruLoggingService._initialized
    setup_lock,     \* LoguruLoggingService._lock: the thread holding it, None when free
    collectors,     \* the store of every MetricsCollector created, in creation order
    setup_threads,  \* the threads calling setup_logging: where each is in its call
    setups,         \* the setup_logging calls made so far
    root_handlers   \* the handlers of the stdlib root logger

vars ==
    <<pc, idx, served, request, state, trace_local, start_local, outcome, sent,
      escaped, raised, handled, log, events, clock, uuids, issued, writes, tasks,
      metrics, capacity, lock, threads, file, applied, calls,
      heap, given, constructed, wrapped, handlers, levels, initialized, setup_lock,
      collectors, setup_threads, setups, root_handlers>>

\* The variables of error construction, of the decorators and of
\* setup_logging, which no request and no call of one collector touches.
elsewhere ==
    <<heap, given, constructed, wrapped, handlers, levels, initialized, setup_lock,
      collectors, setup_threads, setups, root_handlers>>

\* No error is being constructed.
NoConstruction == heap = <<>> /\ given = None /\ constructed = None

\* No decorated function is being called.
NoWrapped == wrapped = <<>>

\* setup_logging is not being called.
NoLogging ==
    /\ handlers = <<>>
    /\ levels = {}
    /\ initialized = FALSE
    /\ setup_lock = None
    /\ collectors = <<>>
    /\ setup_threads = <<>>
    /\ setups = <<>>
    /\ root_handlers = <<>>

\* The variables of the metrics collector.
collector == <<metrics, capacity, lock, threads, file, applied, calls>>

NoFile == [kind |-> "absent"]

\* No collector is in use.
NoCollector ==
    /\ metrics = <<>>
    /\ capacity = 0
    /\ lock = None
    /\ threads = <<>>
    /\ file = NoFile
    /\ applied = <<>>
    /\ calls = 0

NoRequest == [method |-> "", path |-> "", headers |-> [n \in {} |-> <<>>], client |-> None]

Init ==
    /\ pc = "idle"
    /\ idx = 0
    /\ served = 0
    /\ request = NoRequest
    /\ state = EmptyState
    /\ trace_local = None
    /\ start_local = 0
    /\ outcome = NoOutcome
    /\ sent = None
    /\ escaped = None
    /\ raised = None
    /\ handled = None
    /\ log = <<>>
    /\ events = <<>>
    /\ clock = 0
    /\ uuids = 0
    /\ issued = <<>>
    /\ writes = <<>>
    /\ tasks = <<>>
    /\ NoCollector
    /\ NoConstruction
    /\ NoWrapped
    /\ NoLogging

\* A request arrives; every request gets a request.state of its own.
NewRequest ==
    /\ pc \in {"idle", "done"}
    /\ served < MaxRequests
    /\ \E req \in Requests : request' = req
    /\ served' = served + 1
    /\ pc' = "enter"
    /\ idx' = 1
    /\ state' = EmptyState
    /\ trace_local' = None
    /\ start_local' = 0
    /\ outcome' = NoOutcome
    /\ sent' = None
    /\ escaped' = None
    /\ raised' = None
    /\ handled' = None
    /\ log' = <<>>
    /\ events' = <<>>
    /\ writes' = <<>>
    /\ UNCHANGED <<clock, uuids, issued, tasks, collector, elsewhere>>

Entering(mw) == pc = "enter" /\ Stack[idx] = mw

\* After the part of dispatch before `await call_next(request)`.
CallNext ==
    /\ idx' = idx + 1
    /\ pc' = IF idx = Len(Stack) THEN "endpoint" ELSE "enter"

Leaving(mw) == pc = "exit" /\ Stack[idx] = mw

\* dispatch is over: its caller goes on with what it returned or raised.
Return ==
    /\ idx' = idx - 1
    /\ pc' = IF idx = 1 THEN "server" ELSE "exit"

Entered(mw) == [ev |-> "enter", mw |-> mw, state |-> state]

\* What dispatch of mw got from call_next and what it gave its caller.
Left(mw, got, gave, st) == [ev |-> "exit", mw |-> mw, got |-> got, gave |-> gave, state |-> st]

\* ------------------------------------------------------------------------
\* TraceIDMiddleware.dispatch

\* Variant: an identifier the client sent in X-Trace-ID is taken over.
NewTraceIdFromHeader(req, uuid) ==
    IF "x-trace-id" \in DOMAIN req.headers THEN Some(req.headers["x-trace-id"]) ELSE Some(uuid)

\* trace_id = str(uuid4()): the request is not consulted.
NewTraceId(req, uuid) == Some(uuid)

TraceIDEnter ==
    /\ Entering("TraceIDMiddleware")
    /\ uuids' = uuids + 1
    /\ trace_local' = NewTraceId(request, Uuid4Str(uuids + 1))
    /\ state' = SetAttr(state, "trace_id", trace_local')
    /\ writes' = Append(writes, "trace_id")
    /\ events' = Append(events, Entered("TraceIDMiddleware"))
    /\ CallNext
    /\ UNCHANGED <<raised, served, request, start_local, outcome, sent, escaped, handled,
                   log, clock, issued, tasks, collector, elsewhere>>

\* The part after `await call_next(request)`: `got` is what call_next gave.
TraceIDAfter(got, trace_id) ==
    IF got.kind = "response"
    THEN Returned([got.response EXCEPT !.headers = SetHeader(@, "X-Trace-ID", trace_id)])
    ELSE got

TraceIDExit ==
    /\ Leaving("TraceIDMiddleware")
    /\ outcome' = TraceIDAfter(outcome, trace_local)
    /\ events' = Append(events, Left("TraceIDMiddleware", outcome, outcome', state))
    /\ Return
    /\ UNCHANGED <<raised, served, request, state, trace_local, start_local, sent, escaped,
                   handled, log, clock, uuids, issued, writes, tasks, collector, elsewhere>>

\* ------------------------------------------------------------------------
\* RequestTimingMiddleware.dispatch

\* time.perf_counter(): never below the reading before it.
PerfCounterReadings == {clock + t : t \in Ticks}

TimingEnter ==
    /\ Entering("RequestTimingMiddleware")
    /\ \E now \in PerfCounterReadings :
        /\ clock' = now
        /\ start_local' = now
    /\ events' = Append(events, Entered("RequestTimingMiddleware"))
    /\ CallNext
    /\ UNCHANGED <<raised, served, request, state, trace_local, outcome, sent, escaped, handled,
                   log, uuids, issued, writes, tasks, collector, elsewhere>>

\* Variant: no except branch, so a raising call_next leaves no duration.
TimingCatchesNothing(got) == FALSE

\* `except Exception` catches what derives from Exception; anything else
\* raised by call_next leaves dispatch without running either branch.
TimingCatches(got) == got.kind = "raise" /\ IsException(got.exc.cls)

\* Whether the part after `await call_next(request)` reads the clock.
TimingReadsClock(got) == got.kind = "response" \/ TimingCatches(got)

\* The part after `await call_next(request)`, `now` being the clock reading
\* it takes when it takes one: what dispatch gives and request.state after.
TimingAfter(got, st, start, now) ==
    LET duration == now - start
    IN  IF got.kind = "raise"
        THEN IF TimingCatches(got)
             THEN [gave |-> got, state |-> SetAttr(st, "duration_ms", Some(duration))]
             ELSE [gave |-> got, state |-> st]
        ELSE [gave |->
                Returned([got.response EXCEPT
                    !.headers = SetHeader(@, "X-Process-Time", Some(FormatMs(duration)))]),
              state |-> SetAttr(st, "duration_ms", Some(duration))]

TimingExit ==
    /\ Leaving("RequestTimingMiddleware")
    /\ \E now \in PerfCounterReadings :
        LET r == TimingAfter(outcome, state, start_local, now)
        IN  /\ clock' = IF TimingReadsClock(outcome) THEN now ELSE clock
            /\ outcome' = r.gave
            /\ state' = r.state
            /\ events' = Append(events, Left("RequestTimingMiddleware", outcome, r.gave, r.state))
            /\ writes' = IF TimingReadsClock(outcome) THEN Append(writes, "duration_ms")
                          ELSE writes
    /\ Return
    /\ UNCHANGED <<raised, served, request, trace_local, start_local, sent, escaped, handled,
                   log, uuids, issued, tasks, collector, elsewhere>>

\* ------------------------------------------------------------------------
\* ClientInfoMiddleware.dispatch

ClientInfoEnter ==
    /\ Entering("ClientInfoMiddleware")
    /\ state' = SetAttr(SetAttr(state, "client_ip", Some(get_ip(request))),
                        "user_agent", Some(get_user_agent(request)))
    /\ writes' = writes \o <<"client_ip", "user_agent">>
    /\ events' = Append(events, Entered("ClientInfoMiddleware"))
    /\ CallNext
    /\ UNCHANGED <<raised, served, request, trace_local, start_local, outcome, sent, escaped,
                   handled, log, clock, uuids, issued, tasks, collector, elsewhere>>

\* `return await call_next(request)`
ClientInfoAfter(got) == got

ClientInfoExit ==
    /\ Leaving("ClientInfoMiddleware")
    /\ outcome' = ClientInfoAfter(outcome)
    /\ events' = Append(events, Left("ClientInfoMiddleware", outcome, outcome', state))
    /\ Return
    /\ UNCHANGED <<raised, served, request, state, trace_local, start_local, sent, escaped,
                   handled, log, clock, uuids, issued, writes, tasks, collector, elsewhere>>

\* ------------------------------------------------------------------------
\* RequestLoggingMiddleware.dispatch

LoggingEnter ==
    /\ Entering("RequestLoggingMiddleware")
    /\ events' = Append(events, Entered("RequestLoggingMiddleware"))
    /\ CallNext
    /\ UNCHANGED <<raised, served, request, state, trace_local, start_local, outcome, sent,
                   escaped, handled, log, clock, uuids, issued, writes, tasks, collector,
                   elsewhere>>

\* status = response.status_code if response else "error"
LoggedStatus(got) ==
    IF got.kind = "response" THEN [code |-> got.response.status_code]
    ELSE [marker |-> "error"]

\* Variant: the record is emitted after a normal return only.
LoggingRecordsOnReturn(got, req, st) ==
    IF got.kind = "response"
    THEN <<[src |-> "RequestLoggingMiddleware", level |-> "INFO",
            trace_id |-> GetAttr(st, "trace_id", None),
            duration_ms |-> GetAttr(st, "duration_ms", None),
            client_ip |-> GetAttr(st, "client_ip", None),
            user_agent |-> GetAttr(st, "user_agent", None),
            status |-> [code |-> got.response.status_code],
            method |-> req.method,
            path |-> req.path,
            message |-> [method |-> req.method, path |-> req.path,
                         status |-> [code |-> got.response.status_code],
                         duration |-> FormatMs(GetAttr(st, "duration_ms", Some(0))[1])]]>>
    ELSE <<>>

\* The records the finally block gives the logger.
LoggingRecords(got, req, st) ==
    <<[src |-> "RequestLoggingMiddleware", level |-> "INFO",
       trace_id |-> GetAttr(st, "trace_id", None),
       duration_ms |-> GetAttr(st, "duration_ms", None),
       client_ip |-> GetAttr(st, "client_ip", None),
       user_agent |-> GetAttr(st, "user_agent", None),
       status |-> LoggedStatus(got),
       method |-> req.method,
       path |-> req.path,
       message |-> [method |-> req.method, path |-> req.path,
                    status |-> LoggedStatus(got),
                    duration |-> FormatMs(GetAttr(st, "duration_ms", Some(0))[1])]]>>

\* Variant: a failure is answered with a response instead of being raised.
LoggingAfterConverts(got) ==
    IF got.kind = "raise"
    THEN Returned([status_code |-> Some(500), content |-> [status |-> "error"], headers |-> <<>>])
    ELSE got

\* What dispatch gives its caller once the finally block has run.
LoggingAfter(got) == got

LoggingExit ==
    /\ Leaving("RequestLoggingMiddleware")
    /\ log' = log \o LoggingRecords(outcome, request, state)
    /\ outcome' = LoggingAfter(outcome)
    /\ events' = Append(events, Left("RequestLoggingMiddleware", outcome, outcome', state))
    /\ Return
    /\ UNCHANGED <<raised, served, request, state, trace_local, start_local, sent, escaped,
                   handled, clock, uuids, issued, writes, tasks, collector, elsewhere>>

\* ------------------------------------------------------------------------
\* The route handler: application code, which returns or raises.

OkResponse == [status_code |-> Some(200), content |-> [status |-> "ok"], headers |-> <<>>]

EndpointReturns ==
    /\ pc = "endpoint"
    /\ outcome' = Returned(OkResponse)
    /\ pc' = "router"
    /\ UNCHANGED <<raised, idx, served, request, state, trace_local, start_local, sent, escaped,
                   handled, log, events, clock, uuids, issued, writes, tasks, collector,
                   elsewhere>>

\* raise AppExceptionsError(message, status_code, context, trace_id)
EndpointRaisesAppError ==
    /\ pc = "endpoint"
    /\ \E message \in Messages, status_code \in StatusCodes, context \in RouteContexts,
          trace_id \in TraceIdArgs :
        LET exc == AppExceptionsError(message, status_code, context, trace_id,
                                      Uuid4Str(uuids + 1))
        IN  /\ outcome' = Raised(exc)
            /\ raised' = Some(exc)
            /\ uuids' = IF TruthyStr(trace_id) THEN uuids ELSE uuids + 1
    /\ pc' = "router"
    /\ UNCHANGED <<idx, served, request, state, trace_local, start_local, sent, escaped,
                   handled, log, events, clock, issued, writes, tasks, collector,
                   elsewhere>>

EndpointRaisesFailure ==
    /\ pc = "endpoint"
    /\ \E cls \in FailureClasses, msg \in FailureMessages :
        /\ outcome' = Raised(PlainException(cls, msg))
        /\ raised' = Some(PlainException(cls, msg))
    /\ pc' = "router"
    /\ UNCHANGED <<idx, served, request, state, trace_local, start_local, sent, escaped,
                   handled, log, events, clock, uuids, issued, writes, tasks, collector,
                   elsewhere>>

\* The task serving the request is cancelled while the handler runs.
EndpointCancelled ==
    /\ pc = "endpoint"
    /\ outcome' = Raised(PlainException("CancelledError", ""))
    /\ raised' = Some(PlainException("CancelledError", ""))
    /\ pc' = "router"
    /\ UNCHANGED <<idx, served, request, state, trace_local, start_local, sent, escaped,
                   handled, log, events, clock, uuids, issued, writes, tasks, collector,
                   elsewhere>>

\* ------------------------------------------------------------------------
\* The exception middleware around the router (main.py lines 30-32)

RouterConverts ==
    /\ pc = "router"
    /\ outcome.kind = "raise"
    /\ RouterHandles(outcome.exc.cls)
    /\ LET h == app_exception_handler(request, state, outcome.exc)
       IN  /\ outcome' = h.outcome
           /\ handled' = Some(h.exc)
           /\ log' = Append(log, h.record)
    /\ pc' = "exit"
    /\ idx' = Len(Stack)
    /\ UNCHANGED <<raised, served, request, state, trace_local, start_local, sent, escaped,
                   events, clock, uuids, issued, writes, tasks, collector, elsewhere>>

RouterPasses ==
    /\ pc = "router"
    /\ ~(outcome.kind = "raise" /\ RouterHandles(outcome.exc.cls))
    /\ pc' = "exit"
    /\ idx' = Len(Stack)
    /\ UNCHANGED <<raised, served, request, state, trace_local, start_local, outcome, sent,
                   escaped, handled, log, events, clock, uuids, issued, writes, tasks,
                   collector, elsewhere>>

\* ------------------------------------------------------------------------
\* The server-error middleware around Stack (main.py lines 33-35)

\* The values of the X-Trace-ID headers of the response a call gave.
TraceIdsOf(got) ==
    IF got.kind = "response"
    THEN LET hs == SelectSeq(got.response.headers, LAMBDA h : h[1] = "X-Trace-ID")
         IN  [i \in 1..Len(hs) |-> hs[i][2]]
    ELSE <<>>

ServerSends ==
    /\ pc = "server"
    /\ outcome.kind = "response"
    /\ sent' = Some(outcome.response)
    /\ issued' = issued \o TraceIdsOf(outcome)
    /\ pc' = "done"
    /\ UNCHANGED <<raised, idx, served, request, state, trace_local, start_local, outcome,
                   escaped, handled, log, events, clock, uuids, writes, tasks, collector,
                   elsewhere>>

\* The handler's response is sent and the exception is raised again.
ServerConverts ==
    /\ pc = "server"
    /\ outcome.kind = "raise"
    /\ ServerErrorHandles(outcome.exc.cls)
    /\ LET h == unhandled_exception_handler(request, state, outcome.exc, Uuid4Str(uuids + 1))
       IN  /\ sent' = IF h.outcome.kind = "response" THEN Some(h.outcome.response) ELSE None
           /\ issued' = issued \o TraceIdsOf(h.outcome)
           /\ handled' = Some(h.exc)
           /\ log' = Append(log, h.record)
    /\ uuids' = uuids + 1
    /\ escaped' = Some(outcome.exc)
    /\ pc' = "done"
    /\ UNCHANGED <<raised, idx, served, request, state, trace_local, start_local, outcome,
                   events, clock, writes, tasks, collector, elsewhere>>

ServerPasses ==
    /\ pc = "server"
    /\ outcome.kind = "raise"
    /\ ~ServerErrorHandles(outcome.exc.cls)
    /\ escaped' = Some(outcome.exc)
    /\ pc' = "done"
    /\ UNCHANGED <<raised, idx, served, request, state, trace_local, start_local, outcome, sent,
                   handled, log, events, clock, uuids, issued, writes, tasks, collector,
                   elsewhere>>

\* ------------------------------------------------------------------------

Next ==
    \/ NewRequest
    \/ LoggingEnter
    \/ ClientInfoEnter
    \/ TimingEnter
    \/ TraceIDEnter
    \/ EndpointReturns
    \/ EndpointRaisesAppError
    \/ EndpointRaisesFailure
    \/ EndpointCancelled
    \/ RouterConverts
    \/ RouterPasses
    \/ TraceIDExit
    \/ TimingExit
    \/ ClientInfoExit
    \/ LoggingExit
    \/ ServerSends
    \/ ServerConverts
    \/ ServerPasses

Spec == Init /\ [][Next]_vars

\* ------------------------------------------------------------------------
\* The handlers called on their own, with a request whose state was filled
\* by the caller: an application that registers them without the
\* middlewares leaves trace_id unset, and a request.state may hold
\* trace_id = None.

ContextTraceIds == {None, Some("ctx-id")}

ContextDurations == {Some(42500), Some(123456)}

HandlerStates ==
    {EmptyState}
    \cup {SetAttr(EmptyState, "trace_id", t) : t \in ContextTraceIds}
    \cup {SetAttr(EmptyState, "duration_ms", d) : d \in ContextDurations}
    \cup {SetAttr(SetAttr(EmptyState, "trace_id", t), "duration_ms", d) :
            t \in ContextTraceIds, d \in ContextDurations}

HandlerInit ==
    /\ pc = "call"
    /\ idx = 0
    /\ served = 1
    /\ request \in {r \in Requests : DOMAIN r.headers = {"user-agent"} /\ r.client # None}
    /\ state \in HandlerStates
    /\ trace_local = None
    /\ start_local = 0
    /\ outcome = NoOutcome
    /\ sent = None
    /\ escaped = None
    /\ raised = None
    /\ handled = None
    /\ log = <<>>
    /\ events = <<>>
    /\ clock = 0
    /\ uuids = 0
    /\ issued = <<>>
    /\ writes = <<>>
    /\ tasks = <<>>
    /\ NoCollector
    /\ NoConstruction
    /\ NoWrapped
    /\ NoLogging

\* app_exception_handler(request, exc) with a freshly constructed exc.
CallAppExceptionHandler ==
    /\ pc = "call"
    /\ \E message \in Messages, status_code \in StatusCodes, context \in Contexts,
          trace_id \in TraceIdArgs :
        LET exc == AppExceptionsError(message, status_code, context, trace_id,
                                      Uuid4Str(uuids + 1))
            h == app_exception_handler(request, state, exc)
        IN  /\ uuids' = IF TruthyStr(trace_id) THEN uuids ELSE uuids + 1
            /\ raised' = Some(exc)
            /\ handled' = Some(h.exc)
            /\ outcome' = h.outcome
            /\ log' = Append(log, h.record)
    /\ pc' = "returned"
    /\ UNCHANGED <<idx, served, request, state, trace_local, start_local, sent, escaped,
                   events, clock, issued, writes, tasks, collector, elsewhere>>

CallUnhandledExceptionHandler ==
    /\ pc = "call"
    /\ \E cls \in FailureClasses, msg \in FailureMessages :
        LET exc == PlainException(cls, msg)
            h == unhandled_exception_handler(request, state, exc, Uuid4Str(uuids + 1))
        IN  /\ raised' = Some(exc)
            /\ handled' = Some(h.exc)
            /\ outcome' = h.outcome
            /\ log' = Append(log, h.record)
    /\ uuids' = uuids + 1
    /\ pc' = "returned"
    /\ UNCHANGED <<idx, served, request, state, trace_local, start_local, sent, escaped,
                   events, clock, issued, writes, tasks, collector, elsewhere>>

HandlerNext ==
    \/ CallAppExceptionHandler
    \/ CallUnhandledExceptionHandler

HandlerSpec == HandlerInit /\ [][HandlerNext]_vars

\* ------------------------------------------------------------------------
\* ClientInfoMiddleware.dispatch on its own, around a downstream that returns
\* or raises, for requests whose headers may be present with an empty or
\* blank value.

EdgeForwardedValues == ForwardedValues \cup {<<" ">>}

EdgeRealIpValues == RealIpValues \cup {<<>>}

EdgeUserAgents == UserAgents \cup {<<>>}

EdgeHeaderSets ==
    {h \in [{"x-forwarded-for", "x-real-ip", "user-agent"} -> {None} \cup
              {Some(v) : v \in EdgeForwardedValues \cup EdgeRealIpValues \cup EdgeUserAgents}] :
        /\ h["x-forwarded-for"] \in {None} \cup {Some(v) : v \in EdgeForwardedValues}
        /\ h["x-real-ip"] \in {None} \cup {Some(v) : v \in EdgeRealIpValues}
        /\ h["user-agent"] \in {None} \cup {Some(v) : v \in EdgeUserAgents}}

EdgeRequests ==
    {[method |-> "GET", path |-> "/health", headers |-> HeadersOf(h), client |-> c] :
        h \in EdgeHeaderSets, c \in {None} \cup {Some(p) : p \in PeerHosts}}

ClientInfoIndex == CHOOSE i \in 1..Len(Stack) : Stack[i] = "ClientInfoMiddleware"

ClientInfoInit ==
    /\ pc = "enter"
    /\ idx = ClientInfoIndex
    /\ served = 1
    /\ request \in EdgeRequests
    /\ state = EmptyState
    /\ trace_local = None
    /\ start_local = 0
    /\ outcome = NoOutcome
    /\ sent = None
    /\ escaped = None
    /\ raised = None
    /\ handled = None
    /\ log = <<>>
    /\ events = <<>>
    /\ clock = 0
    /\ uuids = 0
    /\ issued = <<>>
    /\ writes = <<>>
    /\ tasks = <<>>
    /\ NoCollector
    /\ NoConstruction
    /\ NoWrapped
    /\ NoLogging

\* call_next(request) of ClientInfoMiddleware returns a response.
DownstreamReturns ==
    /\ pc = "enter"
    /\ idx = ClientInfoIndex + 1
    /\ outcome' = Returned(OkResponse)
    /\ pc' = "exit"
    /\ idx' = ClientInfoIndex
    /\ UNCHANGED <<served, request, state, trace_local, start_local, sent, escaped, raised,
                   handled, log, events, clock, uuids, issued, writes, tasks, collector,
                   elsewhere>>

\* call_next(request) of ClientInfoMiddleware raises.
DownstreamRaises ==
    /\ pc = "enter"
    /\ idx = ClientInfoIndex + 1
    /\ \E cls \in FailureClasses :
        /\ outcome' = Raised(PlainException(cls, "boom"))
        /\ raised' = Some(PlainException(cls, "boom"))
    /\ pc' = "exit"
    /\ idx' = ClientInfoIndex
    /\ UNCHANGED <<served, request, state, trace_local, start_local, sent, escaped,
                   handled, log, events, clock, uuids, issued, writes, tasks, collector,
                   elsewhere>>

ClientInfoNext ==
    \/ ClientInfoEnter
    \/ DownstreamReturns
    \/ DownstreamRaises
    \/ ClientInfoExit

ClientInfoSpec == ClientInfoInit /\ [][ClientInfoNext]_vars

\* ------------------------------------------------------------------------
\* Requests handled concurrently.  Every request has a task of its own that
\* runs the dispatch coroutines of the shared middleware instances; a task
\* can be suspended at every `await call_next(request)` and at the route
\* handler, so the steps of different tasks interleave freely.  Shared by
\* the tasks: the clock, the uuid4() source and the logger.

\* Two requests in flight at the same time, named 1 and 2.
TaskIds == {1, 2}

\* The request of task t; no two tasks have the same peer or user agent.
TaskRequest(t) ==
    [method |-> "GET", path |-> "/health",
     headers |-> [n \in {"user-agent"} |-> <<"u", "a", Digit(t)>>],
     client |-> Some(<<Digit(t)>>)]

NewTask(t) ==
    [pc |-> "enter", idx |-> 1, request |-> TaskRequest(t), state |-> EmptyState,
     trace_local |-> None, start_local |-> 0, outcome |-> NoOutcome,
     sent |-> None, escaped |-> None]

ConcInit ==
    /\ tasks = [t \in TaskIds |-> NewTask(t)]
    /\ log = <<>>
    /\ clock = 0
    /\ uuids = 0
    /\ pc = "concurrent"
    /\ idx = 0
    /\ served = 0
    /\ request = NoRequest
    /\ state = EmptyState
    /\ trace_local = None
    /\ start_local = 0
    /\ outcome = NoOutcome
    /\ sent = None
    /\ escaped = None
    /\ raised = None
    /\ handled = None
    /\ events = <<>>
    /\ issued = <<>>
    /\ writes = <<>>
    /\ NoCollector
    /\ NoConstruction
    /\ NoWrapped
    /\ NoLogging

\* The variables ConcSpec leaves as ConcInit set them.
notConcurrent ==
    <<pc, idx, served, request, state, trace_local, start_local, outcome, sent, escaped,
      raised, handled, events, issued, writes>>

TaskAt(t, where, mw) == tasks[t].pc = where /\ Stack[tasks[t].idx] = mw

TaskCallNext(tk) ==
    [tk EXCEPT !.idx = tk.idx + 1,
               !.pc = IF tk.idx = Len(Stack) THEN "endpoint" ELSE "enter"]

TaskReturn(tk) ==
    [tk EXCEPT !.idx = tk.idx - 1, !.pc = IF tk.idx = 1 THEN "server" ELSE "exit"]

\* A record given to the shared logger, with the task that gave it.
Emitted(t, records) == [i \in 1..Len(records) |-> [task |-> t, record |-> records[i]]]

\* A perf_counter() reading later than the last one.
LaterReading == CHOOSE r \in PerfCounterReadings : r > clock

\* Variant: trace_id is kept on the middleware instance, which the tasks share.
trace_id_of_instance(t) == Some(Uuid4Str(uuids))

\* The local variable trace_id of task t's TraceIDMiddleware.dispatch.
trace_id_of_dispatch(t) == tasks[t].trace_local

ConcTraceID(t) ==
    \/ /\ TaskAt(t, "enter", "TraceIDMiddleware")
       /\ LET id == NewTraceId(tasks[t].request, Uuid4Str(uuids + 1))
              tk == [tasks[t] EXCEPT !.trace_local = id,
                                     !.state = SetAttr(tasks[t].state, "trace_id", id)]
          IN  tasks' = [tasks EXCEPT ![t] = TaskCallNext(tk)]
       /\ uuids' = uuids + 1
       /\ UNCHANGED <<clock, log, notConcurrent, collector, elsewhere>>
    \/ /\ TaskAt(t, "exit", "TraceIDMiddleware")
       /\ LET tk == [tasks[t] EXCEPT
                        !.outcome = TraceIDAfter(tasks[t].outcome, trace_id_of_dispatch(t))]
          IN  tasks' = [tasks EXCEPT ![t] = TaskReturn(tk)]
       /\ UNCHANGED <<clock, uuids, log, notConcurrent, collector, elsewhere>>

ConcTiming(t) ==
    \/ /\ TaskAt(t, "enter", "RequestTimingMiddleware")
       /\ clock' = LaterReading
       /\ tasks' = [tasks EXCEPT ![t] = TaskCallNext([tasks[t] EXCEPT !.start_local = clock'])]
       /\ UNCHANGED <<uuids, log, notConcurrent, collector, elsewhere>>
    \/ /\ TaskAt(t, "exit", "RequestTimingMiddleware")
       /\ LET r == TimingAfter(tasks[t].outcome, tasks[t].state, tasks[t].start_local,
                               LaterReading)
              tk == [tasks[t] EXCEPT !.outcome = r.gave, !.state = r.state]
          IN  tasks' = [tasks EXCEPT ![t] = TaskReturn(tk)]
       /\ clock' = IF TimingReadsClock(tasks[t].outcome) THEN LaterReading ELSE clock
       /\ UNCHANGED <<uuids, log, notConcurrent, collector, elsewhere>>

ConcClientInfo(t) ==
    \/ /\ TaskAt(t, "enter", "ClientInfoMiddleware")
       /\ LET st == SetAttr(SetAttr(tasks[t].state, "client_ip",
                                    Some(get_ip(tasks[t].request))),
                            "user_agent", Some(get_user_agent(tasks[t].request)))
          IN  tasks' = [tasks EXCEPT ![t] = TaskCallNext([tasks[t] EXCEPT !.state = st])]
       /\ UNCHANGED <<clock, uuids, log, notConcurrent, collector, elsewhere>>
    \/ /\ TaskAt(t, "exit", "ClientInfoMiddleware")
       /\ LET tk == [tasks[t] EXCEPT !.outcome = ClientInfoAfter(tasks[t].outcome)]
          IN  tasks' = [tasks EXCEPT ![t] = TaskReturn(tk)]
       /\ UNCHANGED <<clock, uuids, log, notConcurrent, collector, elsewhere>>

ConcLogging(t) ==
    \/ /\ TaskAt(t, "enter", "RequestLoggingMiddleware")
       /\ tasks' = [tasks EXCEPT ![t] = TaskCallNext(tasks[t])]
       /\ UNCHANGED <<clock, uuids, log, notConcurrent, collector, elsewhere>>
    \/ /\ TaskAt(t, "exit", "RequestLoggingMiddleware")
       /\ log' = log \o Emitted(t, LoggingRecords(tasks[t].outcome, tasks[t].request,
                                                  tasks[t].state))
       /\ LET tk == [tasks[t] EXCEPT !.outcome = LoggingAfter(tasks[t].outcome)]
          IN  tasks' = [tasks EXCEPT ![t] = TaskReturn(tk)]
       /\ UNCHANGED <<clock, uuids, notConcurrent, collector, elsewhere>>

\* The route handler of task t returns, raises an AppExceptionsError, raises
\* another failure, or is cancelled.
ConcEndpoint(t) ==
    /\ tasks[t].pc = "endpoint"
    /\ \/ /\ tasks' = [tasks EXCEPT ![t].outcome = Returned(OkResponse), ![t].pc = "router"]
          /\ UNCHANGED uuids
       \/ /\ LET exc == AppExceptionsError(None, Some(404), [kind |-> "none"], None,
                                           Uuid4Str(uuids + 1))
             IN  tasks' = [tasks EXCEPT ![t].outcome = Raised(exc), ![t].pc = "router"]
          /\ uuids' = uuids + 1
       \/ /\ \E cls \in {"ValueError", "CancelledError"} :
                tasks' = [tasks EXCEPT ![t].outcome = Raised(PlainException(cls, "boom")),
                                       ![t].pc = "router"]
          /\ UNCHANGED uuids
    /\ UNCHANGED <<clock, log, notConcurrent, collector, elsewhere>>

ConcRouter(t) ==
    /\ tasks[t].pc = "router"
    /\ IF tasks[t].outcome.kind = "raise" /\ RouterHandles(tasks[t].outcome.exc.cls)
       THEN LET h == app_exception_handler(tasks[t].request, tasks[t].state,
                                           tasks[t].outcome.exc)
            IN  /\ tasks' = [tasks EXCEPT ![t].outcome = h.outcome, ![t].pc = "exit",
                                          ![t].idx = Len(Stack)]
                /\ log' = log \o Emitted(t, <<h.record>>)
       ELSE /\ tasks' = [tasks EXCEPT ![t].pc = "exit", ![t].idx = Len(Stack)]
            /\ UNCHANGED log
    /\ UNCHANGED <<clock, uuids, notConcurrent, collector, elsewhere>>

ConcServer(t) ==
    /\ tasks[t].pc = "server"
    /\ IF tasks[t].outcome.kind = "response"
       THEN /\ tasks' = [tasks EXCEPT ![t].sent = Some(tasks[t].outcome.response),
                                      ![t].pc = "done"]
            /\ UNCHANGED <<uuids, log, collector, elsewhere>>
       ELSE IF ServerErrorHandles(tasks[t].outcome.exc.cls)
       THEN LET h == unhandled_exception_handler(tasks[t].request, tasks[t].state,
                                                 tasks[t].outcome.exc, Uuid4Str(uuids + 1))
            IN  /\ tasks' = [tasks EXCEPT
                                ![t].sent = IF h.outcome.kind = "response"
                                            THEN Some(h.outcome.response) ELSE None,
                                ![t].escaped = Some(tasks[t].outcome.exc),
                                ![t].pc = "done"]
                /\ uuids' = uuids + 1
                /\ log' = log \o Emitted(t, <<h.record>>)
       ELSE /\ tasks' = [tasks EXCEPT ![t].escaped = Some(tasks[t].outcome.exc),
                                      ![t].pc = "done"]
            /\ UNCHANGED <<uuids, log, collector, elsewhere>>
    /\ UNCHANGED <<clock, notConcurrent, collector, elsewhere>>

ConcNext ==
    \E t \in TaskIds :
        \/ ConcLogging(t)
        \/ ConcClientInfo(t)
        \/ ConcTiming(t)
        \/ ConcTraceID(t)
        \/ ConcEndpoint(t)
        \/ ConcRouter(t)
        \/ ConcServer(t)

ConcSpec == ConcInit /\ [][ConcNext]_vars

\* ------------------------------------------------------------------------
\* MetricsCollector (src/infra/mlog/utils.py)
\*
\* metrics is a function from the names that are keys of the dict to the
\* samples of their deque, oldest first.  A value bound to a METRIC record is
\* a number [kind |-> "number", n |-> ..], a str [kind |-> "text", s |-> ..]
\* or an object json cannot serialise [kind |-> "object"].

\* Largest max_metrics_per_type a collector is constructed with.
MaxCapacity == 2

\* Calls of the collector in one run of CollectorSpec or ThreadsSpec.
MaxCalls == 3

MetricNames == {"a", "b"}

Number(n) == [kind |-> "number", n |-> n]

TextValue == [kind |-> "text", s |-> <<"f", "a", "s", "t">>]

ObjectValue == [kind |-> "object"]

\* record["time"].timestamp() of every message, in seconds.
Timestamp == 1000

EmptyMetrics == [n \in {} |-> <<>>]

\* Variant: the deque has no maxlen.
deque_append_unbounded(d, x, maxlen) == Append(d, x)

\* deque(maxlen = maxlen).append(x): the oldest entries are dropped.
deque_append(d, x, maxlen) ==
    LET e == Append(d, x)
    IN  IF Len(e) > maxlen THEN SubSeq(e, Len(e) - maxlen + 1, Len(e)) ELSE e

\* self.metrics[name] of the defaultdict: a missing name gets an empty deque.
metrics_getitem(m, name) == IF name \in DOMAIN m THEN m[name] ELSE <<>>

\* Variant: every name shares one deque.
metrics_append_shared(m, name, sample, maxlen) ==
    LET one == IF DOMAIN m = {} THEN <<>> ELSE m[CHOOSE n \in DOMAIN m : TRUE]
    IN  [n \in (DOMAIN m) \cup {name} |-> deque_append(one, sample, maxlen)]

\* self.metrics[name].append(sample)
metrics_append(m, name, sample, maxlen) ==
    [n \in (DOMAIN m) \cup {name} |->
        IF n = name THEN deque_append(metrics_getitem(m, name), sample, maxlen) ELSE m[n]]

\* A loguru message: extra.metric_name and extra.value are None when the key
\* is not in extra.
Message(level, metric_name, value) ==
    [level |-> level, extra |-> [metric_name |-> metric_name, value |-> value],
     time |-> Timestamp]

NoMessage == Message("", None, None)

\* __call__ lines 73-77: the record is a METRIC record whose extra has the
\* keys metric_name and value.
TakesSample(message) ==
    /\ message.level = "METRIC"
    /\ message.extra.metric_name # None
    /\ message.extra.value # None

SampleOf(message) == [value |-> message.extra.value[1], timestamp |-> message.time]

\* ------------------------------------------------------------------------
\* json.dump and json.load.  A document maps each key to the list of its
\* objects, every number written as its decimal digits and every str as
\* its characters.

json_token(v) ==
    IF v.kind = "number" THEN [t |-> "number", digits |-> DigitsOf(v.n)]
    ELSE [t |-> "string", chars |-> v.s]

DigitValue(c) == CHOOSE d \in 0..9 : Digit(d) = c

RECURSIVE ParseDigits(_)
ParseDigits(ds) ==
    IF Len(ds) = 1 THEN DigitValue(ds[1])
    ELSE 10 * ParseDigits(SubSeq(ds, 1, Len(ds) - 1)) + DigitValue(ds[Len(ds)])

json_value(tok) ==
    IF tok.t = "number" THEN Number(ParseDigits(tok.digits))
    ELSE [kind |-> "text", s |-> tok.chars]

\* Whether json can encode every value of the dict.
Serializable(d) ==
    \A n \in DOMAIN d : \A i \in 1..Len(d[n]) : d[n][i].value.kind \in {"number", "text"}

json_dump(d) ==
    [n \in DOMAIN d |->
        [i \in 1..Len(d[n]) |->
            [value |-> json_token(d[n][i].value),
             timestamp |-> json_token(Number(d[n][i].timestamp))]]]

json_load(doc) ==
    [n \in DOMAIN doc |->
        [i \in 1..Len(doc[n]) |->
            [value |-> json_value(doc[n][i].value),
             timestamp |-> json_value(doc[n][i].timestamp).n]]]

\* The file after open(path, "w"), and after a dump that did not finish: no
\* JSON document.
Truncated == [kind |-> "truncated"]

Written(doc) == [kind |-> "json", doc |-> doc]

\* The severity number of a level; METRIC is registered with no = 25.
LevelNo(level) ==
    CASE level = "TRACE" -> 5
      [] level = "DEBUG" -> 10
      [] level = "INFO" -> 20
      [] level = "SUCCESS" -> 25
      [] level = "METRIC" -> 25
      [] level = "WARNING" -> 30
      [] level = "ERROR" -> 40
      [] level = "CRITICAL" -> 50

\* A sink attached to the logger: collector is the index in collectors of
\* the MetricsCollector it is, 0 for any other sink.
Sink(sink, level, id) == [sink |-> sink, level |-> level, collector |-> id]

\* logger.add(metrics_collector, level = "METRIC", ...)
CollectorSink(id) == Sink("collector", "METRIC", id)

\* A sink is given the records of its level and above.
Accepts(h, level) == LevelNo(h.level) <= LevelNo(level)

\* Whether a record logged while the collector is a sink of the logger, added
\* at level METRIC as setup_logging adds it, makes __call__ go on to
\* `with self._lock` (line 78): the logger gives the sink the records of its
\* level and above, and __call__ returns at line 74 or 77 for the others.
EntersLock(message) == Accepts(CollectorSink(1), message.level) /\ TakesSample(message)

\* Variant: clear reports with a METRIC record carrying a name and a value.
ClearMessageAsMetric == Message("METRIC", Some("a"), Some(Number(0)))

\* line 90: logger.debug("Metrics cleared")
ClearMessage == Message("DEBUG", None, None)

\* lines 106, 108 and 111: logger.info or logger.error
SaveMessage(error) == Message(IF error = None THEN "INFO" ELSE "ERROR", None, None)

\* ------------------------------------------------------------------------
\* Threads calling the collector

IdleThread ==
    [pc |-> "idle", op |-> "none", id |-> 0, message |-> NoMessage, io |-> "ok",
     snap |-> EmptyMetrics, error |-> None, before |-> EmptyMetrics,
     locked |-> EmptyMetrics, result |-> NoOutcome]

\* What the history keeps of a call: after is the set of calls that had
\* returned when it started.
Call(t, op, message, after) ==
    [thread |-> t, op |-> op, message |-> message, after |-> after, returned |-> FALSE]

ReturnedCalls == {i \in 1..Len(calls) : calls[i].returned}

\* Variant: the lock is taken whether or not another thread holds it.
CanAcquireAlways(t) == TRUE

\* `with self._lock`: a thread waits while another one holds the lock.
CanAcquire(t) == lock = None

\* Variant: the lock stays held when the body of the with statement raises.
LockKeptAfterFailure(t) == Some(t)

\* The with statement releases the lock when its body raises.
LockAfterFailure(t) == None

\* The call of thread t returns or raises.
Finish(t, result) ==
    /\ threads' = [threads EXCEPT ![t].pc = "idle", ![t].result = result]
    /\ calls' = [calls EXCEPT ![threads[t].id].returned = TRUE]

Begin(t, op, message, io, next) ==
    /\ threads[t].pc = "idle"
    /\ calls' = Append(calls, Call(t, op, message, ReturnedCalls))
    /\ threads' = [threads EXCEPT ![t] =
            [IdleThread EXCEPT !.pc = next, !.op = op, !.id = Len(calls) + 1,
                               !.message = message, !.io = io, !.before = metrics]]

application ==
    <<pc, idx, served, request, state, trace_local, start_local, outcome, sent, escaped,
      raised, handled, events, clock, uuids, issued, writes, tasks>>

\* collector(message), lines 72-77: a record that is no sample returns here.
StartRecord(t, message) ==
    /\ threads[t].pc = "idle"
    /\ calls' = Append(calls, [Call(t, "record", message, ReturnedCalls) EXCEPT
                                  !.returned = ~TakesSample(message)])
    /\ threads' = [threads EXCEPT ![t] =
            [IdleThread EXCEPT !.pc = IF TakesSample(message) THEN "record_lock" ELSE "idle",
                               !.op = "record", !.id = Len(calls) + 1,
                               !.message = message, !.before = metrics,
                               !.result = IF TakesSample(message) THEN NoOutcome
                                          ELSE Returned(None)]]
    /\ UNCHANGED <<metrics, capacity, lock, file, applied, log, application, elsewhere>>

\* line 78
RecordAcquire(t) ==
    /\ threads[t].pc = "record_lock"
    /\ CanAcquire(t)
    /\ lock' = Some(t)
    /\ threads' = [threads EXCEPT ![t].pc = "record_append", ![t].locked = metrics]
    /\ UNCHANGED <<metrics, capacity, file, applied, calls, log, application, elsewhere>>

\* lines 79-84, and the end of the with statement
RecordAppend(t) ==
    /\ threads[t].pc = "record_append"
    /\ metrics' = metrics_append(metrics, threads[t].message.extra.metric_name[1],
                                 SampleOf(threads[t].message), capacity)
    /\ applied' = Append(applied, threads[t].id)
    /\ lock' = None
    /\ Finish(t, Returned(None))
    /\ UNCHANGED <<capacity, file, log, application, elsewhere>>

\* collector.clear()
StartClear(t) ==
    /\ Begin(t, "clear", NoMessage, "ok", "clear_lock")
    /\ UNCHANGED <<metrics, capacity, lock, file, applied, log, application, elsewhere>>

\* line 88
ClearAcquire(t) ==
    /\ threads[t].pc = "clear_lock"
    /\ CanAcquire(t)
    /\ lock' = Some(t)
    /\ threads' = [threads EXCEPT ![t].pc = "clear_body", ![t].locked = metrics]
    /\ UNCHANGED <<metrics, capacity, file, applied, calls, log, application, elsewhere>>

CollectorRecord(level, text) == [src |-> "MetricsCollector", level |-> level, message |-> text]

\* lines 89-90, and the end of the with statement.  The log call is made
\* with the lock held: were its record a sample for the collector's own
\* sink, the thread would be in __call__ at line 78, waiting for the lock.
ClearBody(t) ==
    /\ threads[t].pc = "clear_body"
    /\ metrics' = EmptyMetrics
    /\ applied' = Append(applied, threads[t].id)
    /\ log' = Append(log, CollectorRecord(ClearMessage.level, "Metrics cleared"))
    /\ IF EntersLock(ClearMessage)
       THEN /\ threads' = [threads EXCEPT ![t].pc = "record_lock",
                                          ![t].message = ClearMessage]
            /\ UNCHANGED <<lock, calls>>
       ELSE /\ lock' = None
            /\ Finish(t, Returned(None))
    /\ UNCHANGED <<capacity, file, application, elsewhere>>

\* collector.save_metrics(path); io tells what the file system will do:
\* "ok", "open fails" or "write fails".
StartSave(t, io) ==
    /\ Begin(t, "save", NoMessage, io, "save_lock")
    /\ UNCHANGED <<metrics, capacity, lock, file, applied, log, application, elsewhere>>

\* line 102: self._lock is entered first
SaveAcquire(t) ==
    /\ threads[t].pc = "save_lock"
    /\ CanAcquire(t)
    /\ lock' = Some(t)
    /\ threads' = [threads EXCEPT ![t].pc = "save_open", ![t].locked = metrics]
    /\ UNCHANGED <<metrics, capacity, file, applied, calls, log, application, elsewhere>>

\* line 102: open(path, "w") truncates the file, or raises OSError and the
\* with statement is left.
SaveOpen(t) ==
    /\ threads[t].pc = "save_open"
    /\ IF threads[t].io = "open fails"
       THEN /\ threads' = [threads EXCEPT ![t].pc = "save_log", ![t].error = Some("OSError")]
            /\ lock' = LockAfterFailure(t)
            /\ UNCHANGED file
       ELSE /\ threads' = [threads EXCEPT ![t].pc = "save_copy"]
            /\ file' = Truncated
            /\ UNCHANGED lock
    /\ UNCHANGED <<metrics, capacity, applied, calls, log, application, elsewhere>>

\* line 104: the comprehension copies the deque of one more name.
SaveCopy(t) ==
    /\ threads[t].pc = "save_copy"
    /\ \E name \in (DOMAIN metrics) \ (DOMAIN threads[t].snap) :
        threads' = [threads EXCEPT ![t].snap =
            [n \in (DOMAIN threads[t].snap) \cup {name} |->
                IF n = name THEN metrics[name] ELSE threads[t].snap[n]]]
    /\ UNCHANGED <<metrics, capacity, lock, file, applied, calls, log, application, elsewhere>>

\* line 105 and the end of the with statement: json.dump writes the copy,
\* or raises TypeError at a value it cannot encode or OSError when the write
\* fails, in both cases leaving an unfinished file.
SaveDump(t) ==
    /\ threads[t].pc = "save_copy"
    /\ (DOMAIN metrics) \subseteq (DOMAIN threads[t].snap)
    /\ IF ~Serializable(threads[t].snap)
       THEN /\ threads' = [threads EXCEPT ![t].pc = "save_log", ![t].error = Some("TypeError")]
            /\ file' = Truncated
            /\ lock' = LockAfterFailure(t)
       ELSE IF threads[t].io = "write fails"
       THEN /\ threads' = [threads EXCEPT ![t].pc = "save_log", ![t].error = Some("OSError")]
            /\ file' = Truncated
            /\ lock' = LockAfterFailure(t)
       ELSE /\ threads' = [threads EXCEPT ![t].pc = "save_log"]
            /\ file' = Written(json_dump(threads[t].snap))
            /\ lock' = None
    /\ applied' = Append(applied, threads[t].id)
    /\ UNCHANGED <<metrics, capacity, calls, log, application, elsewhere>>

\* Variant: a failure is logged and the call returns.
SaveResultSwallowed(error) == Returned(None)

\* lines 106-112: the except branches log and raise again.
SaveResult(error) ==
    IF error = None THEN Returned(None) ELSE Raised(PlainException(error[1], "save_metrics"))

SaveLog(t) ==
    /\ threads[t].pc = "save_log"
    /\ log' = Append(log, CollectorRecord(SaveMessage(threads[t].error).level,
            IF threads[t].error = None THEN "Metrics saved to"
            ELSE IF threads[t].error = Some("OSError") THEN "Failed to save metrics to"
            ELSE "Unexpected error saving metrics to"))
    /\ Finish(t, SaveResult(threads[t].error))
    /\ UNCHANGED <<metrics, capacity, lock, file, applied, application, elsewhere>>

\* A step of a call that has started.
CallStep(t) ==
    \/ RecordAcquire(t)
    \/ RecordAppend(t)
    \/ ClearAcquire(t)
    \/ ClearBody(t)
    \/ SaveAcquire(t)
    \/ SaveOpen(t)
    \/ SaveCopy(t)
    \/ SaveDump(t)
    \/ SaveLog(t)

\* The application serves no request.
NoApplication ==
    /\ pc = "collector"
    /\ idx = 0
    /\ served = 0
    /\ request = NoRequest
    /\ state = EmptyState
    /\ trace_local = None
    /\ start_local = 0
    /\ outcome = NoOutcome
    /\ sent = None
    /\ escaped = None
    /\ raised = None
    /\ handled = None
    /\ log = <<>>
    /\ events = <<>>
    /\ clock = 0
    /\ uuids = 0
    /\ issued = <<>>
    /\ writes = <<>>
    /\ tasks = <<>>

\* MetricsCollector(max_metrics_per_type = n), called by the given threads.
NewCollector(n, callers) ==
    /\ metrics = EmptyMetrics
    /\ capacity = n
    /\ lock = None
    /\ threads = [t \in callers |-> IdleThread]
    /\ file = NoFile
    /\ applied = <<>>
    /\ calls = <<>>

\* ------------------------------------------------------------------------
\* One thread recording numbers, as many as capacity + 5.

\* The value of the sample the next call records.
NextNumber == Number(Len(calls) + 1)

RecordInit ==
    /\ \E n \in 0..MaxCapacity : NewCollector(n, {1})
    /\ NoApplication
    /\ NoConstruction
    /\ NoWrapped
    /\ NoLogging

RecordNext ==
    \/ /\ Len(calls) < capacity + 5
       /\ \E name \in MetricNames : StartRecord(1, Message("METRIC", Some(name), Some(NextNumber)))
    \/ RecordAcquire(1)
    \/ RecordAppend(1)

RecordSpec == RecordInit /\ [][RecordNext]_vars

\* ------------------------------------------------------------------------
\* One thread making MaxCalls calls of any kind, with any record.

CollectorMessages ==
    {Message("METRIC", Some(name), Some(v)) :
        name \in MetricNames, v \in {NextNumber, TextValue, ObjectValue}}
    \cup {Message("INFO", Some("a"), Some(NextNumber)),
          Message("METRIC", None, Some(NextNumber)),
          Message("METRIC", Some("a"), None)}

FileSystems == {"ok", "open fails", "write fails"}

CollectorInit ==
    /\ NewCollector(1, {1})
    /\ NoApplication
    /\ NoConstruction
    /\ NoWrapped
    /\ NoLogging

CollectorNext ==
    \/ /\ Len(calls) < MaxCalls
       /\ \/ \E message \in CollectorMessages : StartRecord(1, message)
          \/ StartClear(1)
          \/ \E io \in FileSystems : StartSave(1, io)
    \/ CallStep(1)

CollectorSpec == CollectorInit /\ [][CollectorNext]_vars

\* ------------------------------------------------------------------------
\* Two threads making MaxCalls calls between them.

ThreadsInit ==
    /\ NewCollector(1, {1, 2})
    /\ NoApplication
    /\ NoConstruction
    /\ NoWrapped
    /\ NoLogging

ThreadsNext ==
    \E t \in DOMAIN threads :
        \/ /\ Len(calls) < MaxCalls
           /\ \/ \E name \in MetricNames :
                    StartRecord(t, Message("METRIC", Some(name), Some(NextNumber)))
              \/ StartClear(t)
              \/ StartSave(t, "ok")
        \/ CallStep(t)

ThreadsSpec == ThreadsInit /\ [][ThreadsNext]_vars

\* ------------------------------------------------------------------------
\* Constructing an AppExceptionsError from a context the caller keeps

ContextKeys == {"reason", "code"}

\* The dicts a caller may hold: any keys of ContextKeys, each with one value.
CallerDicts == UNION {[ks -> {"test"}] : ks \in SUBSET ContextKeys}

\* Context arguments that are neither None nor a dict, a falsy one included.
NonMappingValues == {"overloaded", ""}

\* Variant: the error keeps the caller's dict object.
dict_alias(ref, fresh) == ref

\* context.copy(): a new dict object, at the next free identity.
dict_copy(ref, fresh) == fresh

\* The caller holds None, a value that is no dict, or a dict of its own.
ConstructInit ==
    /\ constructed = None
    /\ \/ heap = <<>> /\ given \in {[kind |-> "none"]}
                                     \cup {[kind |-> "other", v |-> v] : v \in NonMappingValues}
       \/ \E d \in CallerDicts : heap = <<d>> /\ given = [kind |-> "dict", ref |-> 1]
    /\ NoApplication
    /\ NoCollector
    /\ NoWrapped
    /\ NoLogging

construction == <<heap, given, constructed>>

notConstruction ==
    <<application, log, collector, wrapped, handlers, levels, initialized, setup_lock,
      collectors, setup_threads, setups, root_handlers>>

\* AppExceptionsError(message, status_code, context, trace_id), lines 19-31:
\* self.context is a dict object of the heap; passed keeps what the caller's
\* dict held at the call.
Construct ==
    /\ constructed = None
    /\ \E message \in Messages, status_code \in StatusCodes, trace_id \in TraceIdArgs :
        LET fresh == Len(heap) + 1
            value == IF given.kind = "dict"
                     THEN [kind |-> "dict", d |-> heap[given.ref]]
                     ELSE given
            exc == AppExceptionsError(message, status_code, value, trace_id, Uuid4Str(1))
            ref == IF given.kind = "dict" THEN dict_copy(given.ref, fresh) ELSE fresh
        IN  /\ heap' = IF ref = fresh THEN Append(heap, exc.context) ELSE heap
            /\ constructed' = Some([exc |-> [exc EXCEPT !.context = ref],
                                    passed |-> exc.context])
    /\ UNCHANGED <<given, notConstruction>>

\* The caller sets a key of its own dict.
CallerSetsKey ==
    /\ given.kind = "dict"
    /\ \E k \in ContextKeys \ DOMAIN heap[given.ref] :
        heap' = [heap EXCEPT ![given.ref] =
                    [j \in (DOMAIN heap[given.ref]) \cup {k} |-> "test"]]
    /\ UNCHANGED <<given, constructed, notConstruction>>

\* The caller deletes a key of its own dict.
CallerDeletesKey ==
    /\ given.kind = "dict"
    /\ \E k \in DOMAIN heap[given.ref] :
        heap' = [heap EXCEPT ![given.ref] =
                    [j \in (DOMAIN heap[given.ref]) \ {k} |-> "test"]]
    /\ UNCHANGED <<given, constructed, notConstruction>>

ConstructNext == Construct \/ CallerSetsKey \/ CallerDeletesKey

ConstructSpec == ConstructInit /\ [][ConstructNext]_vars

\* ------------------------------------------------------------------------
\* The decorators of src/infra/mlog/decorators.py around one function call

\* The levels loguru defines by itself.
StandardLevels == {"TRACE", "DEBUG", "INFO", "SUCCESS", "WARNING", "ERROR", "CRITICAL"}

\* Whether the logger has a level of that name.
LevelExists(level) == level \in StandardLevels \cup levels

NoSuchLevel == PlainException("ValueError", "Level does not exist")

\* The sink loguru starts with.
DefaultHandlers == <<Sink("stderr", "DEBUG", 0)>>

\* logger.add(sys.stdout, level = "INFO", ...)
StdoutSink == Sink("stdout", "INFO", 0)

\* The handlers a configuration file defines.
ConfigSinks == <<Sink("config", "DEBUG", 0)>>

\* logger.log(level, ...) returns at once when no sink is attached, raises
\* ValueError when sinks are attached and no level has that name.
LogRaises(level) == handlers # <<>> /\ ~LevelExists(level)

\* The decorated functions: logger_wraps with its options, timeit, and
\* metric with its name, each around a plain or a coroutine function.
Decorations ==
    {[decorator |-> "logger_wraps", is_async |-> a, entry |-> e, exit |-> x,
      level |-> "DEBUG", metric_name |-> None] : a, e, x \in BOOLEAN}
    \cup {[decorator |-> "timeit", is_async |-> a, entry |-> FALSE, exit |-> FALSE,
           level |-> "DEBUG", metric_name |-> None] : a \in BOOLEAN}
    \cup {[decorator |-> "metric", is_async |-> a, entry |-> FALSE, exit |-> FALSE,
           level |-> "METRIC", metric_name |-> Some(n)] : a \in BOOLEAN, n \in MetricNames}

\* What the wrapped function does: it returns a value or raises; awaiting a
\* coroutine may also end with CancelledError.
FuncOutcomes(is_async) ==
    {Returned("result"), Raised(PlainException("ValueError", "error"))}
    \cup (IF is_async THEN {Raised(PlainException("CancelledError", ""))} ELSE {})

\* The n-th call of a decorated function, before the wrapper has done
\* anything: began and ended are the numbers of records logged when the
\* wrapped function started and ended.
NewCall(n, deco) ==
    [n |-> n, deco |-> deco, pc |-> "before", start |-> 0, got |-> NoOutcome,
     result |-> NoOutcome, began |-> 0, ended |-> 0]

\* No decorated function has been called yet.
NoCall ==
    [NewCall(0, [decorator |-> "none", is_async |-> FALSE, entry |-> FALSE, exit |-> FALSE,
                 level |-> "", metric_name |-> None]) EXCEPT !.pc = "idle"]

WrapsRecord(level, text, result) ==
    [src |-> "logger_wraps", level |-> level, message |-> text, result |-> result]

TimeitRecord(exec_time) == [src |-> "timeit", level |-> "DEBUG", exec_time |-> exec_time]

\* logger.bind(metric_name = name, value = exec_time).log("METRIC", ...)
MetricRecord(name, exec_time) == Message("METRIC", Some(name), Some(Number(exec_time)))

notWrapped ==
    <<pc, idx, served, request, state, trace_local, start_local, outcome, sent, escaped,
      raised, handled, events, uuids, issued, writes, tasks, collector, heap, given,
      constructed, handlers, levels, initialized, setup_lock, collectors, setup_threads,
      setups, root_handlers>>

WrapInit ==
    /\ NoApplication
    /\ NoCollector
    /\ NoConstruction
    /\ wrapped = NoCall
    /\ handlers = DefaultHandlers
    /\ levels \in {{}, {"METRIC"}}
    /\ initialized = FALSE
    /\ setup_lock = None
    /\ collectors = <<>>
    /\ setup_threads = <<>>
    /\ setups = <<>>
    /\ root_handlers = <<>>

\* A decorated function is called.
Invoke ==
    /\ wrapped.pc \in {"idle", "done"}
    /\ wrapped.n < MaxCalls
    /\ \E deco \in Decorations : wrapped' = NewCall(wrapped.n + 1, deco)
    /\ log' = <<>>
    /\ UNCHANGED <<clock, notWrapped>>

WrapperAt(where, decorator) == wrapped.pc = where /\ wrapped.deco.decorator = decorator

\* logger_wraps lines 59 and 67: log_entry(), then the function is called.
LoggerWrapsBefore ==
    /\ WrapperAt("before", "logger_wraps")
    /\ log' = IF wrapped.deco.entry
              THEN Append(log, WrapsRecord(wrapped.deco.level, "Entering", None))
              ELSE log
    /\ wrapped' = [wrapped EXCEPT !.pc = "running", !.began = Len(log')]
    /\ UNCHANGED <<clock, notWrapped>>

\* timeit lines 98 and 115, metric lines 162 and 174: start = perf_counter().
TimedBefore ==
    /\ wrapped.pc = "before"
    /\ wrapped.deco.decorator \in {"timeit", "metric"}
    /\ \E now \in PerfCounterReadings :
        /\ clock' = now
        /\ wrapped' = [wrapped EXCEPT !.pc = "running", !.start = now, !.began = Len(log)]
    /\ UNCHANGED <<log, notWrapped>>

\* func(*args, **kwargs), awaited when it is a coroutine function
FunctionEnds ==
    /\ wrapped.pc = "running"
    /\ \E got \in FuncOutcomes(wrapped.deco.is_async) :
        wrapped' = [wrapped EXCEPT !.pc = "after", !.got = got, !.ended = Len(log)]
    /\ UNCHANGED <<log, clock, notWrapped>>

\* Variant: log_exit runs in a finally block.
ReachesLogExitAlways(got) == TRUE

\* logger_wraps lines 60-61 and 68-69: the statements after the call run
\* only when the call returned.
ReachesLogExit(got) == got.kind = "response"

\* logger_wraps lines 61-62 and 69-70
LoggerWrapsAfter ==
    /\ WrapperAt("after", "logger_wraps")
    /\ log' = IF ReachesLogExit(wrapped.got) /\ wrapped.deco.exit
              THEN Append(log, WrapsRecord(wrapped.deco.level, "Exiting",
                                           IF wrapped.got.kind = "response"
                                           THEN Some(wrapped.got.response) ELSE None))
              ELSE log
    /\ wrapped' = [wrapped EXCEPT !.pc = "done", !.result = wrapped.got]
    /\ UNCHANGED <<clock, notWrapped>>

\* timeit lines 101-111 and 118-128: the finally block logs at DEBUG, then
\* the result is returned or the exception goes on.
TimeitAfter ==
    /\ WrapperAt("after", "timeit")
    /\ \E now \in PerfCounterReadings :
        /\ clock' = now
        /\ log' = Append(log, TimeitRecord(now - wrapped.start))
    /\ wrapped' = [wrapped EXCEPT !.pc = "done", !.result = wrapped.got]
    /\ UNCHANGED notWrapped

\* metric lines 165-170 and 177-182: the finally block logs at METRIC; when
\* the logger has no such level the log call raises inside the finally
\* block and its ValueError is what leaves the wrapper.
MetricAfter ==
    /\ WrapperAt("after", "metric")
    /\ \E now \in PerfCounterReadings :
        /\ clock' = now
        /\ IF LogRaises("METRIC")
           THEN /\ log' = log
                /\ wrapped' = [wrapped EXCEPT !.pc = "done", !.result = Raised(NoSuchLevel)]
           ELSE /\ log' = Append(log, MetricRecord(wrapped.deco.metric_name[1],
                                                   now - wrapped.start))
                /\ wrapped' = [wrapped EXCEPT !.pc = "done", !.result = wrapped.got]
    /\ UNCHANGED notWrapped

WrapNext ==
    \/ Invoke
    \/ LoggerWrapsBefore
    \/ TimedBefore
    \/ FunctionEnds
    \/ LoggerWrapsAfter
    \/ TimeitAfter
    \/ MetricAfter

WrapSpec == WrapInit /\ [][WrapNext]_vars

\* ------------------------------------------------------------------------
\* The loguru logger and LoguruLoggingService.setup_logging

\* MetricsCollector(): max_metrics_per_type when none is given.
DefaultCapacity == 10000

\* The collectors that take the message as a sample, given to the sinks hs.
Takers(hs, message) ==
    {hs[i].collector : i \in {j \in 1..Len(hs) :
        /\ hs[j].sink = "collector"
        /\ Accepts(hs[j], message.level)
        /\ TakesSample(message)}}

\* What setup_logging finds at config_path.
ConfigOutcomes == {"defines METRIC", "no METRIC", "not a file", "OSError", "Exception"}

SetupCallers == {1, 2}

IdleSetup == [pc |-> "idle", id |-> 0, force |-> FALSE]

\* What the history keeps of a setup_logging call: body tells how far the
\* configuration body got, entered whether the flag was set when the call
\* took the lock, before the handlers attached at that moment, sinks and
\* flag the handlers and the flag the body left when it completed or raised.
SetupEntry(t, force) ==
    [thread |-> t, force |-> force, body |-> "none", entered |-> FALSE,
     result |-> "pending", before |-> <<>>, sinks |-> <<>>, flag |-> FALSE]

SetupRecord(level, text) == [src |-> "setup_logging", level |-> level, message |-> text]

\* The METRIC log calls made so far.
MetricCalls == SelectSeq(log, LAMBDA r : r.src = "caller")

LoggingInit ==
    /\ NoApplication
    /\ NoCollector
    /\ NoConstruction
    /\ NoWrapped
    /\ handlers = DefaultHandlers
    /\ levels = {}
    /\ initialized = FALSE
    /\ setup_lock = None
    /\ collectors = <<>>
    /\ setup_threads = [t \in SetupCallers |-> IdleSetup]
    /\ setups = <<>>
    /\ root_handlers = <<>>

notLogging ==
    <<pc, idx, served, request, state, trace_local, start_local, outcome, sent, escaped,
      raised, handled, events, clock, uuids, issued, writes, tasks, collector, heap, given,
      constructed, wrapped>>

\* setup_logging(force = force) is called by thread t.
SetupCall(t, force) ==
    /\ setup_threads[t].pc = "idle"
    /\ setups' = Append(setups, SetupEntry(t, force))
    /\ setup_threads' = [setup_threads EXCEPT ![t] =
            [pc |-> "lock", id |-> Len(setups) + 1, force |-> force]]
    /\ UNCHANGED <<handlers, levels, initialized, setup_lock, collectors, root_handlers,
                   log, notLogging>>

\* Variant: the configuration body is entered without waiting for the lock.
SetupCanAcquireAlways(t) == TRUE

\* `with cls._lock`
SetupCanAcquire(t) == setup_lock = None

\* Variant: the flag is not looked at.
SkipsNever(force) == FALSE

\* line 71: `if cls._initialized and not force`
Skips(force) == initialized /\ ~force

\* lines 69-73: the lock is taken; an initialized service that is not
\* forced logs that it skips and returns, releasing the lock.
SetupEnter(t) ==
    /\ setup_threads[t].pc = "lock"
    /\ SetupCanAcquire(t)
    /\ IF Skips(setup_threads[t].force)
       THEN /\ log' = Append(log, SetupRecord("DEBUG", "Logging already configured"))
            /\ setup_threads' = [setup_threads EXCEPT ![t].pc = "idle"]
            /\ setups' = [setups EXCEPT ![setup_threads[t].id].entered = initialized,
                                        ![setup_threads[t].id].result = "returned"]
            /\ UNCHANGED setup_lock
       ELSE /\ setup_lock' = Some(t)
            /\ setup_threads' = [setup_threads EXCEPT ![t].pc = "remove"]
            /\ setups' = [setups EXCEPT ![setup_threads[t].id].entered = initialized,
                                        ![setup_threads[t].id].before = handlers,
                                        ![setup_threads[t].id].body = "started"]
            /\ UNCHANGED log
    /\ UNCHANGED <<handlers, levels, initialized, collectors, root_handlers, notLogging>>

\* The call of thread t leaves the with statement with an exception.
SetupRaises(t) ==
    /\ setup_lock' = None
    /\ setup_threads' = [setup_threads EXCEPT ![t].pc = "idle"]
    /\ setups' = [setups EXCEPT ![setup_threads[t].id].body = "raised",
                                ![setup_threads[t].id].result = "raised",
                                ![setup_threads[t].id].sinks = handlers',
                                ![setup_threads[t].id].flag = initialized]

\* lines 76-83: logger.remove() detaches every sink, then the logs directory
\* is made, which the file system may refuse.
SetupRemove(t) ==
    /\ setup_threads[t].pc = "remove"
    /\ handlers' = <<>>
    /\ \/ /\ setup_threads' = [setup_threads EXCEPT ![t].pc = "configure"]
          /\ UNCHANGED <<setup_lock, setups>>
       \/ SetupRaises(t)
    /\ UNCHANGED <<levels, initialized, collectors, root_handlers, log, notLogging>>

\* lines 85-115: the configuration file is loaded, its handlers replacing
\* those attached and its levels registered; without a file, or when the
\* load raises, METRIC is registered if it is not and a stdout sink added.
SetupConfigure(t) ==
    /\ setup_threads[t].pc = "configure"
    /\ \E found \in ConfigOutcomes :
        IF found \in {"defines METRIC", "no METRIC"}
        THEN /\ handlers' = ConfigSinks
             /\ levels' = IF found = "defines METRIC" THEN levels \cup {"METRIC"} ELSE levels
             /\ log' = Append(log, SetupRecord("INFO", "Loaded logging config"))
        ELSE /\ handlers' = Append(handlers, StdoutSink)
             /\ levels' = levels \cup {"METRIC"}
             /\ log' = Append(log,
                    IF found = "not a file"
                    THEN SetupRecord("WARNING", "Config file not found")
                    ELSE IF found = "OSError"
                    THEN SetupRecord("WARNING", "Config load failed")
                    ELSE SetupRecord("CRITICAL", "Unexpected error in logging setup"))
    /\ setup_threads' = [setup_threads EXCEPT ![t].pc = "collector"]
    /\ UNCHANGED <<initialized, setup_lock, collectors, setups, root_handlers, notLogging>>

\* lines 119-120: a new MetricsCollector is made and added as a sink of
\* level METRIC; logger.add raises ValueError when no level has that name.
SetupAddCollector(t) ==
    /\ setup_threads[t].pc = "collector"
    /\ collectors' = Append(collectors, EmptyMetrics)
    /\ IF LevelExists("METRIC")
       THEN /\ handlers' = Append(handlers, CollectorSink(Len(collectors) + 1))
            /\ setup_threads' = [setup_threads EXCEPT ![t].pc = "finish"]
            /\ UNCHANGED <<setup_lock, setups>>
       ELSE /\ UNCHANGED handlers
            /\ SetupRaises(t)
    /\ UNCHANGED <<levels, initialized, root_handlers, log, notLogging>>

\* lines 123-126: the stdlib root logger gets the one InterceptHandler, the
\* flag is set, and the lock is released.
SetupFinish(t) ==
    /\ setup_threads[t].pc = "finish"
    /\ root_handlers' = <<"InterceptHandler">>
    /\ initialized' = TRUE
    /\ setup_lock' = None
    /\ setup_threads' = [setup_threads EXCEPT ![t].pc = "idle"]
    /\ setups' = [setups EXCEPT ![setup_threads[t].id].body = "completed",
                                ![setup_threads[t].id].result = "returned",
                                ![setup_threads[t].id].sinks = handlers,
                                ![setup_threads[t].id].flag = initialized']
    /\ UNCHANGED <<handlers, levels, collectors, log, notLogging>>

\* logger.bind(metric_name = name, value = v).log("METRIC", ...): every
\* collector sink appends the sample to its own store.  The history keeps
\* which collectors took it, and whether every setup_logging call made
\* before had returned normally.
LogMetric(name) ==
    LET message == Message("METRIC", Some(name), Some(Number(Len(MetricCalls) + 1)))
        took == IF LogRaises("METRIC") THEN {} ELSE Takers(handlers, message)
    IN  /\ collectors' = [i \in 1..Len(collectors) |->
                IF i \in took
                THEN metrics_append(collectors[i], name, SampleOf(message), DefaultCapacity)
                ELSE collectors[i]]
        /\ log' = Append(log, [src |-> "caller", level |-> "METRIC", message |-> message,
                               raised |-> LogRaises("METRIC"), took |-> took,
                               settled |-> /\ setups # <<>>
                                           /\ \A i \in 1..Len(setups) :
                                                 setups[i].result = "returned"])
        /\ UNCHANGED <<handlers, levels, initialized, setup_lock, setup_threads, setups,
                       root_handlers, notLogging>>

LoggingNext ==
    \/ /\ Len(setups) + Len(MetricCalls) < MaxCalls
       /\ \/ \E t \in SetupCallers, force \in BOOLEAN : SetupCall(t, force)
          \/ LogMetric("a")
    \/ \E t \in SetupCallers :
          \/ SetupEnter(t)
          \/ SetupRemove(t)
          \/ SetupConfigure(t)
          \/ SetupAddCollector(t)
          \/ SetupFinish(t)

LoggingSpec == LoggingInit /\ [][LoggingNext]_vars

\* ------------------------------------------------------------------------
\* Two threads calling the collector, each one scheduled again and again:
\* a thread whose next statement can run does run it in the end.

ThreadsFairSpec ==
    /\ ThreadsInit
    /\ [][ThreadsNext]_vars
    /\ \A t \in {1, 2} : WF_vars(CallStep(t))

\* ========================================================================
\* Properties

IsPrefix(a, b) == Len(a) <= Len(b) /\ a = SubSeq(b, 1, Len(a))

EnterEvents == SelectSeq(events, LAMBDA e : e.ev = "enter")

ExitEvents == SelectSeq(events, LAMBDA e : e.ev = "exit")

EnterOrder == [i \in 1..Len(EnterEvents) |-> EnterEvents[i].mw]

ExitOrder == [i \in 1..Len(ExitEvents) |-> ExitEvents[i].mw]

HasLeft(mw) == \E i \in 1..Len(ExitEvents) : ExitEvents[i].mw = mw

\* The records RequestLoggingMiddleware emitted for the request.
RequestLog == SelectSeq(log, LAMBDA r : r.src = "RequestLoggingMiddleware")

IsErrorResponse(resp) == "error" \in DOMAIN resp.content

RaisedClass == IF raised = None THEN "" ELSE raised[1].cls

IsDigit(c) == c \in {"0", "1", "2", "3", "4", "5", "6", "7", "8", "9"}

\* <digits>.<two digits>ms, without a sign.
IsProcessTime(v) ==
    /\ Len(v) >= 6
    /\ v[Len(v)] = "s"
    /\ v[Len(v) - 1] = "m"
    /\ IsDigit(v[Len(v) - 2])
    /\ IsDigit(v[Len(v) - 3])
    /\ v[Len(v) - 4] = "."
    /\ \A i \in 1..(Len(v) - 5) : IsDigit(v[i])

\* C1: when the route handler raised and the client receives a response, the
\* trace_id of its JSON error body equals its single X-Trace-ID header, on the
\* structured and on the unstructured path, whatever trace id the error was
\* constructed with.
C1_BodyTraceIdEqualsHeader ==
    (sent # None /\ raised # None) =>
        /\ IsErrorResponse(sent[1])
        /\ HeaderCount(sent[1].headers, "X-Trace-ID") = 1
        /\ sent[1].content.error.trace_id = GetHeader(sent[1].headers, "X-Trace-ID")
        /\ TruthyStr(sent[1].content.error.trace_id)

C1_Witness ==
    /\ sent # None
    /\ RaisedClass = "AppExceptionsError"
    /\ raised[1].trace_id = Some("caller-id")
    /\ sent[1].content.error.trace_id = GetHeader(sent[1].headers, "X-Trace-ID")
    /\ sent[1].content.error.trace_id # Some("caller-id")

\* C2: every record that reads duration_ms from the request context (the
\* exception handlers' and RequestLoggingMiddleware's) finds it set.
C2_DurationSetBeforeRead ==
    \A i \in 1..Len(log) : log[i].duration_ms # None

\* C3: RequestLoggingMiddleware emits no record before its dispatch is left
\* and exactly one once it is left, whether call_next returned a response or
\* raised; a served request has exactly one.
C3_OneLogRecordPerRequest ==
    /\ Len(RequestLog) = (IF HasLeft("RequestLoggingMiddleware") THEN 1 ELSE 0)
    /\ pc = "done" => Len(RequestLog) = 1

C3_Witness ==
    /\ pc = "done"
    /\ RaisedClass \in FailureClasses
    /\ escaped = raised
    /\ Len(RequestLog) = 1
    /\ RequestLog[1].status = [marker |-> "error"]

\* C4: when the handler is cancelled, RequestTimingMiddleware has written
\* duration_ms when its dispatch is left, and RequestLoggingMiddleware has
\* emitted its one record when its dispatch is left.
C4_CancelledStillTimedAndLogged ==
    RaisedClass = "CancelledError" =>
        /\ \A i \in 1..Len(ExitEvents) :
              ExitEvents[i].mw = "RequestTimingMiddleware" =>
                  HasAttr(ExitEvents[i].state, "duration_ms")
        /\ HasLeft("RequestLoggingMiddleware") => Len(RequestLog) = 1

\* C5: the response the client receives carries one X-Process-Time header of
\* the form <non-negative number>ms, also when the handler raised.
C5_ProcessTimeHeader ==
    (sent # None /\ "RequestTimingMiddleware" \in {EnterOrder[i] : i \in 1..Len(EnterOrder)}) =>
        /\ HeaderCount(sent[1].headers, "X-Process-Time") = 1
        /\ GetHeader(sent[1].headers, "X-Process-Time") # None
        /\ IsProcessTime(GetHeader(sent[1].headers, "X-Process-Time")[1])

C5_Witness ==
    /\ sent # None
    /\ RaisedClass \in FailureClasses
    /\ HasHeader(sent[1].headers, "X-Process-Time")
    /\ GetHeader(sent[1].headers, "X-Process-Time") = Some(<<"2", ".", "3", "5", "m", "s">>)

\* C6: on the unstructured-failure path the response has status 500, message
\* "Internal server error" and type the failure's class name, and it is the
\* response the same request would get had the failure carried any other
\* message.
C6_UnstructuredBodyIsGeneric ==
    (sent # None /\ RaisedClass \in FailureClasses) =>
        /\ sent[1].status_code = Some(500)
        /\ sent[1].content.error.message = "Internal server error"
        /\ sent[1].content.error.type = raised[1].cls
        /\ DOMAIN sent[1].content.error = {"message", "type", "trace_id"}
        /\ \A msg \in FailureMessages :
              unhandled_exception_handler(request, state, PlainException(raised[1].cls, msg),
                                          Uuid4Str(uuids)).outcome
                  = Returned(sent[1])

C6_Witness ==
    /\ sent # None
    /\ RaisedClass = "RuntimeError"
    /\ raised[1].msg = "secret"
    /\ sent[1].content.error.message = "Internal server error"

FullEnterOrder ==
    <<"RequestLoggingMiddleware", "ClientInfoMiddleware", "RequestTimingMiddleware",
      "TraceIDMiddleware">>

FullExitOrder ==
    <<"TraceIDMiddleware", "RequestTimingMiddleware", "ClientInfoMiddleware",
      "RequestLoggingMiddleware">>

\* C7 as claimed: Trace Identity is entered before Timing and Timing before
\* Client Identity, inside Request Logging, and the trace id is in the context
\* when Timing and Client Identity start.
C7_TraceThenTimingThenClient ==
    /\ IsPrefix(EnterOrder,
                <<"RequestLoggingMiddleware", "TraceIDMiddleware",
                  "RequestTimingMiddleware", "ClientInfoMiddleware">>)
    /\ \A i \in 1..Len(EnterEvents) :
          EnterEvents[i].mw \in {"RequestTimingMiddleware", "ClientInfoMiddleware"} =>
              HasAttr(EnterEvents[i].state, "trace_id")

\* C7 amended: a request enters Request Logging, then Client Identity, then
\* Timing, then Trace Identity, each wrapping the next, and they are left in
\* the reverse order; the trace id is not in the context when Client Identity
\* and Timing start, and is in the context when the route handler runs and in
\* every record logged for the request.
C7_LoggingClientTimingTrace ==
    /\ IsPrefix(EnterOrder, FullEnterOrder)
    /\ pc \notin {"idle", "enter"} => EnterOrder = FullEnterOrder
    /\ IsPrefix(ExitOrder, FullExitOrder)
    /\ pc \in {"server", "done"} => ExitOrder = FullExitOrder
    /\ \A i \in 1..Len(EnterEvents) :
          EnterEvents[i].mw \in {"RequestTimingMiddleware", "ClientInfoMiddleware"} =>
              ~HasAttr(EnterEvents[i].state, "trace_id")
    /\ pc \in {"endpoint", "router"} => HasAttr(state, "trace_id")
    /\ \A i \in 1..Len(log) : TruthyStr(log[i].trace_id)

C7_Witness ==
    /\ pc = "done"
    /\ EnterOrder = FullEnterOrder
    /\ ExitOrder = FullExitOrder
    /\ Len(log) > 0

\* C8: when the client receives a response, the record RequestLoggingMiddleware
\* logged carries that response's status code; it carries the "error" marker
\* only when the client receives no response.
C8_LoggedStatusIsResponseStatus ==
    pc = "done" =>
        /\ Len(RequestLog) = 1
        /\ sent # None => RequestLog[1].status = [code |-> sent[1].status_code]
        /\ RequestLog[1].status = [marker |-> "error"] => sent = None

\* C9: a middleware whose call_next raises gives its caller that same
\* exception and never a response; when the exception is a failure raised
\* downstream (it derives from Exception), RequestTimingMiddleware has written
\* the elapsed duration_ms into the context when it raises it again.  The
\* cancellation of the request, which is no failure of downstream, is C4's.
C9_FailurePropagatesUnchanged ==
    \A i \in 1..Len(ExitEvents) :
        ExitEvents[i].got.kind = "raise" =>
            /\ ExitEvents[i].gave = ExitEvents[i].got
            /\ (ExitEvents[i].mw = "RequestTimingMiddleware"
                    /\ IsException(ExitEvents[i].got.exc.cls)) =>
                  /\ HasAttr(ExitEvents[i].state, "duration_ms")
                  /\ ExitEvents[i].state["duration_ms"] = Some(clock - start_local)

C9_Witness ==
    /\ pc = "done"
    /\ RaisedClass = "ValueError"
    /\ Len(ExitEvents) = 4
    /\ \A i \in 1..4 : ExitEvents[i].gave = Raised(raised[1])
    /\ escaped = raised
    /\ state["duration_ms"] = Some(2346)

\* C10: app_exception_handler resolves the context's trace id when the
\* context holds one and the error's own when the attribute is unset or None;
\* the error's trace_id is the resolved id afterwards, a non-empty string that
\* is both the X-Trace-ID header and the body's trace_id.
C10_ResolvedTraceId ==
    (pc = "returned" /\ RaisedClass = "AppExceptionsError") =>
        LET ctx == GetAttr(state, "trace_id", None)
            resolved == IF ctx # None THEN ctx ELSE raised[1].trace_id
        IN  /\ handled[1].trace_id = resolved
            /\ TruthyStr(resolved)
            /\ outcome.kind = "response"
            /\ GetHeader(outcome.response.headers, "X-Trace-ID") = resolved
            /\ outcome.response.content.error.trace_id = resolved

\* The X-Trace-ID header the client sent with the request in flight.
ClientTraceId == HeaderGet(request, "x-trace-id")

\* C11: TraceIDMiddleware draws a new identifier for every request, whether or
\* not the client sent one, and never the client's; a response the client
\* receives carries exactly one X-Trace-ID header, also when an exception
\* handler had set one; its value is that identifier, a non-empty string, and
\* no two responses of the run carry the same value.
C11_FreshTraceIdPerRequest ==
    /\ trace_local # None =>
          /\ TruthyStr(trace_local)
          /\ trace_local # ClientTraceId
          /\ sent = None => \A i \in 1..Len(issued) : issued[i] # trace_local
    /\ sent # None =>
          /\ HeaderCount(sent[1].headers, "X-Trace-ID") = 1
          /\ GetHeader(sent[1].headers, "X-Trace-ID") = trace_local
    /\ Len(issued) <= served
    /\ \A i, j \in 1..Len(issued) : i # j => issued[i] # issued[j]

C11_Witness ==
    /\ pc = "done"
    /\ served = 2
    /\ ClientTraceId = Some("client-id")
    /\ RaisedClass = "AppExceptionsError"
    /\ sent # None
    /\ Len(issued) = 2
    /\ issued[2] = GetHeader(sent[1].headers, "X-Trace-ID")
    /\ issued[1] # issued[2]

\* The precedence of C12 as claimed: X-Real-IP is taken whenever it is present.
ClaimedIp(req) ==
    LET forwarded == HeaderGet(req, "x-forwarded-for")
        real == HeaderGet(req, "x-real-ip")
    IN  IF forwarded # None /\ forwarded[1] # <<>> THEN Strip(FirstToken(forwarded[1]))
        ELSE IF real # None THEN real[1]
        ELSE IF req.client # None THEN req.client[1]
        ELSE Unknown

\* The precedence of C12 amended: X-Real-IP is taken when present and non-empty.
AmendedIp(req) ==
    LET forwarded == HeaderGet(req, "x-forwarded-for")
        real == HeaderGet(req, "x-real-ip")
    IN  IF forwarded # None /\ forwarded[1] # <<>> THEN Strip(FirstToken(forwarded[1]))
        ELSE IF real # None /\ real[1] # <<>> THEN real[1]
        ELSE IF req.client # None THEN req.client[1]
        ELSE Unknown

ClaimedUserAgent(req) ==
    IF HeaderGet(req, "user-agent") # None THEN HeaderGet(req, "user-agent")[1] ELSE Unknown

\* ClientInfoMiddleware has run its part before call_next.
ClientInfoCalledNext ==
    \E i \in 1..Len(EnterEvents) : EnterEvents[i].mw = "ClientInfoMiddleware"

\* A trimmed first token: no comma, no blank at either end.
IsTrimmedToken(s) ==
    /\ \A i \in 1..Len(s) : s[i] # ","
    /\ s # <<>> => ~IsSpace(s[1]) /\ ~IsSpace(s[Len(s)])

\* C12 as claimed: client_ip is the trimmed first token of a present,
\* non-empty X-Forwarded-For, else X-Real-IP verbatim if present, else the
\* peer address, else "unknown"; user_agent is the User-Agent header or
\* "unknown"; downstream is invoked for every request.
C12_RealIpWheneverPresent ==
    /\ (pc = "enter" /\ idx = ClientInfoIndex) => ENABLED ClientInfoEnter
    /\ ClientInfoCalledNext =>
          /\ state["client_ip"] = Some(ClaimedIp(request))
          /\ state["user_agent"] = Some(ClaimedUserAgent(request))

\* C12 amended: as claimed, except that X-Real-IP is taken only when it is
\* present and non-empty; sent empty, it is passed over for the peer address
\* or "unknown".
C12_RealIpWhenNonEmpty ==
    /\ (pc = "enter" /\ idx = ClientInfoIndex) => ENABLED ClientInfoEnter
    /\ ClientInfoCalledNext =>
          /\ state["client_ip"] = Some(AmendedIp(request))
          /\ state["user_agent"] = Some(ClaimedUserAgent(request))
          /\ (HeaderGet(request, "x-forwarded-for") \notin {None, Some(<<>>)}) =>
                IsTrimmedToken(state["client_ip"][1])
          /\ pc = "enter" => idx = ClientInfoIndex + 1

C12_Witness ==
    /\ ClientInfoCalledNext
    /\ HeaderGet(request, "x-forwarded-for") = Some(<<>>)
    /\ HeaderGet(request, "x-real-ip") = Some(<<>>)
    /\ request.client # None
    /\ state["client_ip"] = request.client
    /\ outcome.kind = "response"

ContextFields == {"trace_id", "duration_ms", "client_ip", "user_agent"}

\* How many times the attribute was set on request.state for this request.
WriteCount(f) == Cardinality({i \in 1..Len(writes) : writes[i] = f})

\* request.state as the middlewares saw it, oldest first, then as it is now.
StateHistory == [i \in 1..Len(events) |-> events[i].state] \o <<state>>

\* What call_next gave RequestTimingMiddleware, None while it has not returned.
TimingGot ==
    LET left == SelectSeq(ExitEvents, LAMBDA e : e.mw = "RequestTimingMiddleware")
    IN  IF left = <<>> THEN None ELSE Some(left[1].got)

\* C13: within one request, trace_id, duration_ms, client_ip and user_agent
\* are each set at most once and keep the value they were given; duration_ms
\* has been set exactly once when RequestTimingMiddleware is left with a
\* response (success path) and when it is left with a failure raised
\* downstream, deriving from Exception (failure path), and not before.  The
\* cancellation of the request is C4's.
C13_FieldsWrittenOnce ==
    /\ \A f \in ContextFields : WriteCount(f) <= 1
    /\ DOMAIN state = {writes[i] : i \in 1..Len(writes)}
    /\ DOMAIN state \subseteq ContextFields
    /\ \A i, j \in 1..Len(StateHistory) :
          i < j =>
              \A f \in DOMAIN StateHistory[i] :
                  /\ f \in DOMAIN StateHistory[j]
                  /\ StateHistory[j][f] = StateHistory[i][f]
    /\ TimingGot = None => WriteCount("duration_ms") = 0
    /\ (TimingGot # None /\ TimingGot[1].kind = "response") => WriteCount("duration_ms") = 1
    /\ (TimingGot # None /\ TimingGot[1].kind = "raise" /\ IsException(TimingGot[1].exc.cls)) =>
          WriteCount("duration_ms") = 1

C13_Witness ==
    /\ pc = "done"
    /\ served = 2
    /\ RaisedClass \in FailureClasses
    /\ writes = <<"client_ip", "user_agent", "trace_id", "duration_ms">>
    /\ state["duration_ms"] = Some(2346)

\* The records task t gave the logger.
TaskLog(t) ==
    LET own == SelectSeq(log, LAMBDA e : e.task = t)
    IN  [i \in 1..Len(own) |-> own[i].record]

\* The value v of a context field is the one task t's middlewares wrote.
WrittenByTask(t, field, v) == field \in DOMAIN tasks[t].state /\ v = tasks[t].state[field]

\* C14: with two requests handled concurrently, under every interleaving of
\* their steps, the X-Trace-ID and X-Process-Time headers of a response and
\* the trace id, duration, client ip and user agent of a logged record are
\* the values the same request's middlewares wrote into its own context
\* (a field not yet written is logged as None), and the two requests have
\* different trace ids, client ips and user agents.
C14_ContextIsPrivate ==
    \A t \in TaskIds :
        /\ tasks[t].sent # None =>
              LET hs == tasks[t].sent[1].headers
              IN  /\ HeaderCount(hs, "X-Trace-ID") = 1
                  /\ WrittenByTask(t, "trace_id", GetHeader(hs, "X-Trace-ID"))
                  /\ GetHeader(hs, "X-Trace-ID") = tasks[t].trace_local
                  /\ HasHeader(hs, "X-Process-Time") =>
                        /\ HasAttr(tasks[t].state, "duration_ms")
                        /\ GetHeader(hs, "X-Process-Time")
                              = Some(FormatMs(tasks[t].state["duration_ms"][1]))
        /\ \A i \in 1..Len(TaskLog(t)) :
              LET r == TaskLog(t)[i]
              IN  /\ WrittenByTask(t, "trace_id", r.trace_id)
                  /\ r.duration_ms # None => WrittenByTask(t, "duration_ms", r.duration_ms)
                  /\ r.client_ip = Some(get_ip(TaskRequest(t)))
                  /\ r.user_agent = Some(get_user_agent(TaskRequest(t)))
                  /\ r.src = "RequestLoggingMiddleware" =>
                        r.duration_ms = GetAttr(tasks[t].state, "duration_ms", None)
        /\ \A u \in TaskIds \ {t} :
              /\ tasks[t].trace_local # None => tasks[t].trace_local # tasks[u].trace_local
              /\ get_ip(TaskRequest(t)) # get_ip(TaskRequest(u))
              /\ get_user_agent(TaskRequest(t)) # get_user_agent(TaskRequest(u))

\* Both requests are answered, the second one's route handler having run
\* between the first one's entering and leaving TraceIDMiddleware, and their
\* durations differ.
C14_Witness ==
    /\ tasks # <<>>
    /\ \A t \in TaskIds : tasks[t].pc = "done" /\ tasks[t].sent # None
    /\ tasks[1].trace_local = Some(Uuid4Str(1))
    /\ tasks[2].trace_local = Some(Uuid4Str(2))
    /\ Len(log) >= 2
    /\ log[1].task = 2
    /\ tasks[1].state["duration_ms"] # tasks[2].state["duration_ms"]

\* The calls that acted on the store after the last clear, in order.
SinceClear ==
    LET cleared == {i \in 1..Len(applied) : calls[applied[i]].op = "clear"}
        from == IF cleared = {} THEN 1
                ELSE 1 + CHOOSE i \in cleared : \A j \in cleared : j <= i
    IN  SubSeq(applied, from, Len(applied))

\* The samples recorded under the name after the last clear, oldest first.
RecordedUnder(name) ==
    LET ids == SelectSeq(SinceClear,
                         LAMBDA id : /\ calls[id].op = "record"
                                     /\ calls[id].message.extra.metric_name = Some(name))
    IN  [i \in 1..Len(ids) |-> SampleOf(calls[ids[i]].message)]

\* The last n entries of a sequence, all of them when it has fewer.
LastN(r, n) == IF Len(r) > n THEN SubSeq(r, Len(r) - n + 1, Len(r)) ELSE r

\* C15: under every name the collector holds at most N = max_metrics_per_type
\* samples, and they are the most recent min(N, k) of the k samples recorded
\* under it, in recording order; after N + 5 samples under one name it holds
\* N of them, the 5 oldest gone.
C15_KeepsMostRecent ==
    \A name \in MetricNames :
        LET r == RecordedUnder(name)
            kept == metrics_getitem(metrics, name)
        IN  /\ Len(kept) <= capacity
            /\ Len(kept) = (IF Len(r) < capacity THEN Len(r) ELSE capacity)
            /\ kept = LastN(r, capacity)
            /\ Len(r) = capacity + 5 =>
                  /\ Len(kept) = capacity
                  /\ kept = SubSeq(r, 6, capacity + 5)

C15_Witness ==
    /\ capacity = MaxCapacity
    /\ threads[1].pc = "idle"
    /\ Len(RecordedUnder("a")) = capacity + 5
    /\ Len(metrics["a"]) = capacity
    /\ metrics["a"][1].value = Number(6)
    /\ metrics["a"][capacity].value = Number(capacity + 5)

\* The record operation of thread t has returned.
RecordReturned(t) == threads[t].op = "record" /\ threads[t].pc = "idle"

\* The record C16 says is taken: a METRIC record whose extra holds a metric
\* name and a numeric value.
IsNumericSample(message) ==
    /\ message.level = "METRIC"
    /\ message.extra.metric_name # None
    /\ message.extra.value # None
    /\ message.extra.value[1].kind = "number"

\* C16: a record operation leaves the store as it was unless the record's
\* level is METRIC and its extra holds a metric name and a numeric value; in
\* that case the store is as it was with one sample {value, timestamp}
\* appended to that name's sequence.
C16_NoOpUnlessNumericSample ==
    \A t \in DOMAIN threads :
        RecordReturned(t) =>
            IF IsNumericSample(threads[t].message)
            THEN metrics = metrics_append(threads[t].before,
                                          threads[t].message.extra.metric_name[1],
                                          [value |-> threads[t].message.extra.value[1],
                                           timestamp |-> Timestamp],
                                          capacity)
            ELSE metrics = threads[t].before

\* The store after the calls of ids acted on an empty store one after the
\* other, in that order.
RECURSIVE StoreAfter(_)
StoreAfter(ids) ==
    IF ids = <<>> THEN EmptyMetrics
    ELSE LET m == StoreAfter(SubSeq(ids, 1, Len(ids) - 1))
             c == calls[ids[Len(ids)]]
         IN  IF c.op = "record"
             THEN metrics_append(m, c.message.extra.metric_name[1], SampleOf(c.message), capacity)
             ELSE IF c.op = "clear" THEN EmptyMetrics
             ELSE m

\* Thread t is inside the with statement of save_metrics.
InSave(t) == threads[t].op = "save" /\ threads[t].pc \in {"save_open", "save_copy"}

\* The position in applied of the last save_metrics that wrote the file.
LastSave == CHOOSE i \in 1..Len(applied) :
                /\ calls[applied[i]].op = "save"
                /\ \A j \in (i + 1)..Len(applied) : calls[applied[j]].op # "save"

\* Neither call had returned when the other one started.
Overlap(i, j) == i \notin calls[j].after /\ j \notin calls[i].after

\* C17: while save_metrics is inside its with statement the store stays as
\* it was when the lock was taken and every deque copied so far is the one
\* the store held then; a written file is the encoding of the store as it
\* was at one point of the order in which the calls acted, so every record
\* and clear is wholly before or wholly after it.
C17_SnapshotOfOneInstant ==
    /\ \A t \in DOMAIN threads :
          InSave(t) =>
              /\ lock = Some(t)
              /\ metrics = threads[t].locked
              /\ \A n \in DOMAIN threads[t].snap :
                    /\ n \in DOMAIN threads[t].locked
                    /\ threads[t].snap[n] = threads[t].locked[n]
    /\ file.kind = "json" =>
          /\ \E i \in 1..Len(applied) : calls[applied[i]].op = "save"
          /\ file.doc = json_dump(StoreAfter(SubSeq(applied, 1, LastSave - 1)))

\* A save_metrics overlapped two record calls of the other thread: the one
\* that took the lock before it is in the file, the one that took the lock
\* after it is not, and the store holds the later one.
C17_Witness ==
    /\ Len(applied) = 3
    /\ calls[applied[1]].op = "record"
    /\ calls[applied[2]].op = "save"
    /\ calls[applied[3]].op = "record"
    /\ Overlap(applied[1], applied[2])
    /\ Overlap(applied[2], applied[3])
    /\ calls[applied[1]].message.extra.metric_name = Some("a")
    /\ calls[applied[3]].message.extra.metric_name = Some("a")
    /\ file.kind = "json"
    /\ json_load(file.doc)["a"] = <<SampleOf(calls[applied[1]].message)>>
    /\ metrics["a"] = <<SampleOf(calls[applied[3]].message)>>

\* Thread t is inside a with self._lock statement.
Critical(t) == threads[t].pc \in {"record_append", "clear_body", "save_open", "save_copy"}

\* The position of call id in applied, 0 when it has not acted.
AppliedAt(id) ==
    IF \E i \in 1..Len(applied) : applied[i] = id
    THEN CHOOSE i \in 1..Len(applied) : applied[i] = id
    ELSE 0

\* The samples the store holds, under any name.
StoredSamples == UNION {{metrics[n][i] : i \in 1..Len(metrics[n])} : n \in DOMAIN metrics}

\* C18: at most one thread is inside a with self._lock statement and it holds
\* the lock; the store is the one the calls produce when executed one after
\* the other in the order they took the lock, an order that keeps every call
\* that returned before another one started ahead of it and in which every
\* returned call appears once; so the store holds under every name the most
\* recent samples recorded since the last clear, up to the capacity, and once
\* clear has returned no sample recorded by a call that returned before the
\* clear started is in the store.
C18_Linearizable ==
    /\ \A t, u \in DOMAIN threads : Critical(t) /\ Critical(u) => t = u
    /\ \A t \in DOMAIN threads : Critical(t) => lock = Some(t)
    /\ metrics = StoreAfter(applied)
    /\ \A i, j \in 1..Len(applied) :
          /\ i # j => applied[i] # applied[j]
          /\ i < j => applied[j] \notin calls[applied[i]].after
    /\ \A id \in ReturnedCalls : AppliedAt(id) # 0
    /\ \A name \in MetricNames :
          metrics_getitem(metrics, name) = LastN(RecordedUnder(name), capacity)
    /\ \A c \in ReturnedCalls :
          calls[c].op = "clear" =>
              \A r \in calls[c].after :
                  calls[r].op = "record" => SampleOf(calls[r].message) \notin StoredSamples

\* A record returned, then a clear ran while the other thread's record was
\* waiting for the lock; the clear has returned and the store holds the
\* sample of the record that waited, not the earlier one.
C18_Witness ==
    /\ Len(applied) = 3
    /\ calls[applied[1]].op = "record"
    /\ calls[applied[2]].op = "clear"
    /\ calls[applied[3]].op = "record"
    /\ applied[1] \in calls[applied[2]].after
    /\ Overlap(applied[2], applied[3])
    /\ applied[3] < applied[2]
    /\ ReturnedCalls = {1, 2, 3}
    /\ StoredSamples = {SampleOf(calls[applied[3]].message)}

\* save_metrics of thread t has returned or raised, the file system having
\* accepted every operation.
SaveEnded(t) == threads[t].op = "save" /\ threads[t].pc = "idle" /\ threads[t].io = "ok"

\* The loaded document has the names of the store, and under each name as
\* many samples, in the same order.
SameSamples(loaded, store) ==
    /\ DOMAIN loaded = DOMAIN store
    /\ \A n \in DOMAIN store :
          /\ Len(loaded[n]) = Len(store[n])
          /\ \A i \in 1..Len(store[n]) : loaded[n][i] = store[n][i]

\* C19: whatever store record and clear have produced, a save_metrics the
\* file system does not fail returns normally, and the file it wrote loads
\* to the names the store held at the call, with under each name the same
\* number of samples in the same order.
C19_SaveRoundTrips ==
    \A t \in DOMAIN threads :
        SaveEnded(t) =>
            /\ threads[t].result = Returned(None)
            /\ file.kind = "json"
            /\ SameSamples(json_load(file.doc), threads[t].before)

\* save_metrics of thread t has ended and the file system refused the open
\* or the write.
SaveFailed(t) ==
    /\ threads[t].op = "save"
    /\ threads[t].pc = "idle"
    /\ threads[t].io \in {"open fails", "write fails"}

ErrorRecords == SelectSeq(log, LAMBDA r : r.src = "MetricsCollector" /\ r.level = "ERROR")

\* C20: a save_metrics whose open or write fails raises to its caller, the
\* OSError itself when the store could be encoded, after logging one ERROR
\* record as its last act; the store is the one it held when the call
\* started and the lock is free, so that a later call waiting for the lock
\* always gets it.
C20_FailureLoggedAndRaised ==
    \A t \in DOMAIN threads :
        /\ SaveFailed(t) =>
              /\ threads[t].result.kind = "raise"
              /\ Serializable(threads[t].before) =>
                    /\ threads[t].result = Raised(PlainException("OSError", "save_metrics"))
                    /\ log[Len(log)] = CollectorRecord("ERROR", "Failed to save metrics to")
              /\ log # <<>>
              /\ log[Len(log)].level = "ERROR"
              /\ metrics = threads[t].before
              /\ lock = None
        /\ threads[t].pc \in {"record_lock", "clear_lock", "save_lock"} => lock = None

\* A save_metrics whose open failed and one whose write failed were each
\* logged, and the record called after them has added its sample.
C20_Witness ==
    /\ Len(calls) = 3
    /\ calls[1].op = "save"
    /\ calls[2].op = "save"
    /\ calls[3].op = "record"
    /\ applied = <<2, 3>>
    /\ Len(ErrorRecords) = 2
    /\ file.kind = "truncated"
    /\ RecordReturned(1)
    /\ metrics = metrics_append(EmptyMetrics, "a", SampleOf(calls[3].message), capacity)
    /\ lock = None

\* The dict object the constructed error holds as self.context.
ErrorContext == heap[constructed[1].exc.context]

\* C24: the context of a constructed AppExceptionsError is a dict object of
\* its own: for a dict argument it is another object than the caller's and
\* holds what the caller's dict held at construction, whatever keys the
\* caller sets or deletes afterwards; for None it is the empty dict; for any
\* other value v, a falsy one included, it is {"detail": v}; and to_dict has
\* exactly the keys message, status_code, context and trace_id.
C24_ContextNormalized ==
    constructed # None =>
        /\ given.kind = "dict" =>
              /\ constructed[1].exc.context # given.ref
              /\ ErrorContext = constructed[1].passed
        /\ given.kind = "none" => ErrorContext = [k \in {} |-> ""]
        /\ given.kind = "other" => ErrorContext = [k \in {"detail"} |-> given.v]
        /\ DOMAIN to_dict(constructed[1].exc) = {"message", "status_code", "context", "trace_id"}
        /\ to_dict(constructed[1].exc).context = constructed[1].exc.context

\* An error was constructed from a dict holding one key; the caller has
\* since deleted that key and set the other one, and the error's context
\* still holds the first.
C24_Witness ==
    /\ constructed # None
    /\ given.kind = "dict"
    /\ DOMAIN constructed[1].passed = {"reason"}
    /\ DOMAIN heap[given.ref] = {"code"}
    /\ DOMAIN ErrorContext = {"reason"}

\* C25: app_exception_handler called with a structured error ends with a
\* response, never with an exception; the response's status is the status
\* code the error holds, 500 if that is None or 0, and its body is
\* {"error": to_dict()} of the error as the handler leaves it.
C25_HandlerIsTerminal ==
    (pc = "returned" /\ RaisedClass = "AppExceptionsError") =>
        /\ outcome.kind = "response"
        /\ outcome.response.status_code =
              (IF TruthyInt(handled[1].status_code) THEN handled[1].status_code ELSE Some(500))
        /\ outcome.response.content = [error |-> to_dict(handled[1])]

\* C28: whatever X-Forwarded-For, X-Real-IP and peer a request has, the
\* client_ip ClientInfoMiddleware stores is a non-empty string.
C28_ClientIpNonEmpty ==
    ClientInfoCalledNext =>
        /\ state["client_ip"] # None
        /\ state["client_ip"][1] # <<>>

\* The metric name of the record thread t gave the collector, None if its
\* extra has none.
RecordedName(t) == threads[t].message.extra.metric_name

\* C30: a record under one name leaves the sequence of every other name as
\* it was, samples, order and length, and adds or removes no other name,
\* also when the record makes its own name's sequence drop its oldest sample.
C30_OtherNamesUnchanged ==
    \A t \in DOMAIN threads :
        RecordReturned(t) =>
            /\ \A n \in MetricNames :
                  Some(n) # RecordedName(t) =>
                      /\ n \in DOMAIN metrics <=> n \in DOMAIN threads[t].before
                      /\ metrics_getitem(metrics, n) = metrics_getitem(threads[t].before, n)
            /\ DOMAIN metrics \subseteq MetricNames

\* The record that just returned made name a drop a sample, and name b
\* still holds the one sample recorded under it before.
C30_Witness ==
    /\ capacity = 1
    /\ RecordReturned(1)
    /\ RecordedName(1) = Some("a")
    /\ Len(RecordedUnder("a")) = 3
    /\ Len(metrics["a"]) = 1
    /\ threads[1].before["a"] # metrics["a"]
    /\ "b" \in DOMAIN metrics
    /\ metrics["b"] = RecordedUnder("b")
    /\ Len(metrics["b"]) = 1

\* The call of a decorated function has ended.
WrapperDone(decorator) == wrapped.pc = "done" /\ wrapped.deco.decorator = decorator

\* C21: every call of a function wrapped by metric(name) logs exactly one
\* METRIC record, carrying the name and the time measured around the call,
\* and every call of a timeit-wrapped function logs exactly one timing
\* record, whether the function returned or raised and whether it is a
\* coroutine function or not; the wrapper ends as the function ended, with
\* the same value or the same exception.
C21_OneRecordAndSameOutcome ==
    /\ WrapperDone("metric") =>
          /\ Len(log) = 1
          /\ log[1] = MetricRecord(wrapped.deco.metric_name[1], clock - wrapped.start)
          /\ wrapped.result = wrapped.got
    /\ WrapperDone("timeit") =>
          /\ Len(log) = 1
          /\ log[1] = TimeitRecord(clock - wrapped.start)
          /\ wrapped.result = wrapped.got

\* The records logger_wraps logged for the call in progress.
WrapsLog(text) == SelectSeq(log, LAMBDA r : r.src = "logger_wraps" /\ r.message = text)

\* C29: a function wrapped by logger_wraps has its entry record logged
\* before it starts and, when it returns, its exit record, carrying the
\* result, logged after it has ended, the wrapper returning that result;
\* with entry = False or exit = False that record is never logged; when the
\* function raises, the wrapper ends with the same exception and logs no
\* exit record.
C29_EntryBeforeExitAfter ==
    wrapped.deco.decorator = "logger_wraps" =>
        /\ Len(WrapsLog("Entering")) =
              (IF wrapped.deco.entry /\ wrapped.pc # "before" THEN 1 ELSE 0)
        /\ wrapped.pc \in {"running", "after", "done"} =>
              wrapped.began = (IF wrapped.deco.entry THEN 1 ELSE 0)
        /\ wrapped.pc \in {"after", "done"} => wrapped.ended = wrapped.began
        /\ Len(WrapsLog("Exiting")) =
              (IF wrapped.pc = "done" /\ wrapped.deco.exit /\ wrapped.got.kind = "response"
               THEN 1 ELSE 0)
        /\ wrapped.pc = "done" =>
              /\ wrapped.result = wrapped.got
              /\ WrapsLog("Exiting") # <<>> =>
                    /\ log[Len(log)] = WrapsRecord(wrapped.deco.level, "Exiting",
                                                   Some(wrapped.got.response))
                    /\ Len(log) > wrapped.ended

\* A coroutine function wrapped with both records returned: the entry
\* record, then the function, then the exit record with its result.
C29_Witness ==
    /\ WrapperDone("logger_wraps")
    /\ wrapped.deco.is_async
    /\ wrapped.result = Returned("result")
    /\ Len(log) = 2
    /\ log[1] = WrapsRecord("DEBUG", "Entering", None)
    /\ log[2] = WrapsRecord("DEBUG", "Exiting", Some("result"))
    /\ wrapped.began = 1
    /\ wrapped.ended = 1

\* The setup_logging calls so far whose configuration body is in that state.
Bodies(hist, kind) == {i \in 1..Len(hist) : hist[i].body = kind}

\* Every setup_logging call so far was made without force.
NoneForced(hist) == \A i \in 1..Len(hist) : ~hist[i].force

\* Every setup_logging call so far has returned normally.
AllReturned(hist) == \A i \in 1..Len(hist) : hist[i].result = "returned"

\* Thread t leaves `with cls._lock` line 69 in this step, not forced, with
\* the flag set.
PassesLockInitialized(t) ==
    /\ setup_threads[t].pc = "lock"
    /\ setup_threads'[t].pc # "lock"
    /\ initialized
    /\ ~setup_threads[t].force

\* C22: setup_logging is idempotent.  A call without force that finds the
\* service initialized returns without running the configuration body and
\* changes nothing: no sink removed or added, no level, collector or root
\* handler touched.  While every call so far was made without force, from
\* one thread or from two at once, two bodies never run at the same time, at
\* most one body completes, and once every call has returned exactly one
\* body has run.
C22_Idempotent ==
    [][/\ \A t \in SetupCallers :
            PassesLockInitialized(t) =>
                /\ setup_threads'[t].pc = "idle"
                /\ setups'[setup_threads[t].id].body = "none"
                /\ UNCHANGED <<handlers, levels, collectors, root_handlers, initialized,
                               setup_lock>>
       /\ NoneForced(setups') =>
            /\ Cardinality(Bodies(setups', "started")) <= 1
            /\ Cardinality(Bodies(setups', "completed")) <= 1
            /\ (setups' # <<>> /\ AllReturned(setups')) =>
                    /\ Cardinality(Bodies(setups', "completed")) = 1
                    /\ Cardinality(Bodies(setups', "none")) = Len(setups') - 1
                    /\ handlers' = setups'[CHOOSE i \in Bodies(setups', "completed") : TRUE].sinks
                    /\ Len(collectors') = 1]_vars

\* Three calls without force have returned, the second one made while the
\* first was still running: one ran the body, the others found the flag set.
C22_Witness ==
    /\ Len(setups) = 3
    /\ NoneForced(setups)
    /\ AllReturned(setups)
    /\ setups[1].thread # setups[2].thread
    /\ Bodies(setups, "completed") # {}
    /\ \E i \in Bodies(setups, "none") : setups[i].entered

\* The positions in hs of the MetricsCollector sinks.
CollectorSinks(hs) == {i \in 1..Len(hs) : hs[i].sink = "collector"}

\* A METRIC log call is made in this step.
MetricLogged == Len(MetricCalls') = Len(MetricCalls) + 1

\* C27: once every setup_logging call made so far has returned normally,
\* forced or not, exactly one MetricsCollector sink is attached and the
\* METRIC level exists; a METRIC log call with a name and a value made then
\* does not raise, adds one sample to the store of the attached collector
\* and leaves every other collector as it was.
C27_OneSampleOneCollector ==
    [][/\ (setups' # <<>> /\ AllReturned(setups')) =>
            /\ Cardinality(CollectorSinks(handlers')) = 1
            /\ "METRIC" \in levels'
       /\ (MetricLogged /\ setups # <<>> /\ AllReturned(setups)) =>
            /\ ~log'[Len(log')].raised
            /\ \E h \in CollectorSinks(handlers) :
                LET i == handlers[h].collector
                IN  /\ log'[Len(log')].took = {i}
                    /\ Len(metrics_getitem(collectors'[i], "a"))
                         = Len(metrics_getitem(collectors[i], "a")) + 1
                    /\ \A j \in (1..Len(collectors)) \ {i} : collectors'[j] = collectors[j]]_vars

\* setup_logging() and setup_logging(force = True) have returned, and a
\* METRIC log call made after them was taken by the second collector alone.
C27_Witness ==
    /\ Len(setups) = 2
    /\ AllReturned(setups)
    /\ setups[2].force
    /\ Len(collectors) = 2
    /\ \E k \in 1..Len(log) :
        /\ log[k].src = "caller"
        /\ log[k].settled
        /\ log[k].took = {2}
        /\ collectors[1] = EmptyMetrics
        /\ Len(metrics_getitem(collectors[2], "a")) = 1

\* The samples METRIC log calls have handed to some collector, in order.
TakenSamples ==
    LET taken == SelectSeq(log, LAMBDA r : r.src = "caller" /\ r.took # {})
    IN  [k \in 1..Len(taken) |-> SampleOf(taken[k].message)]

\* The stores of the collectors attached to the logger.
AttachedStores == {collectors[handlers[h].collector] : h \in CollectorSinks(handlers)}

\* C23: the metrics store is created once and lives for the whole process.
\* Across setup_logging calls, forced or not, and METRIC log calls, there
\* is never more than one MetricsCollector; between two setup_logging calls
\* its store holds every sample recorded so far (no clear is called and the
\* capacity is never reached); nothing is written to disk.
C23_OneStoreForTheProcess ==
    /\ Len(collectors) <= 1
    /\ (setups # <<>> /\ AllReturned(setups)) =>
            \A s \in AttachedStores : metrics_getitem(s, "a") = TakenSamples
    /\ file = NoFile

\* Thread t is at `with self._lock`, lines 78, 88 or 102.
WaitsForLock(t) == threads[t].pc \in {"record_lock", "clear_lock", "save_lock"}

\* Thread t is inside a with statement of the collector.
InsideLock(t) == threads[t].pc \in {"record_append", "clear_body", "save_open", "save_copy"}

\* C26: MetricsCollector never deadlocks.  No thread waits for the mutex
\* while it holds it; the mutex is held only by a thread inside a with
\* statement, whose next statement can always run; no record that
\* save_metrics logs makes __call__ take the mutex, and the record clear
\* logs with the mutex held does not either; and every call that has
\* started returns or raises in the end.
C26_NeverDeadlocks ==
    /\ [](\A t \in DOMAIN threads :
            /\ WaitsForLock(t) => lock # Some(t)
            /\ InsideLock(t) <=> lock = Some(t)
            /\ InsideLock(t) => ENABLED CallStep(t)
            /\ (WaitsForLock(t) /\ lock = None) => ENABLED CallStep(t))
    /\ [](\A error \in {None, Some("OSError"), Some("TypeError")} :
            ~EntersLock(SaveMessage(error)))
    /\ \A t \in {1, 2} : (threads[t].pc # "idle") ~> (threads[t].pc = "idle")

\* A clear, which logs with the mutex held, and a record made by the other
\* thread have run at the same time, and every call has returned.
C26_Witness ==
    /\ \E k \in 1..Len(log) : log[k].src = "MetricsCollector" /\ log[k].level = "DEBUG"
    /\ \E i, j \in 1..Len(calls) :
        /\ calls[i].op = "clear"
        /\ calls[j].op = "record"
        /\ calls[i].thread # calls[j].thread
        /\ i \notin calls[j].after
        /\ j \notin calls[i].after
    /\ \A t \in DOMAIN threads : threads[t].pc = "idle"
    /\ Len(calls) = MaxCalls

\* The setup_logging calls so far that raised.
RaisedSetups == {i \in 1..Len(setups) : setups[i].result = "raised"}

\* The setup lock is held only by a call that has neither returned nor raised.
SetupLockReleased ==
    setup_lock # None => setups[setup_threads[setup_lock[1]].id].result = "pending"

\* C31: a setup_logging call that raises leaves the logging configuration
\* as it was when the call took the lock: the sinks attached then are the
\* sinks attached when it raises, the flag has the value it had, and the
\* lock is released.
C31_RaiseLeavesConfiguration ==
    /\ \A i \in RaisedSetups :
        /\ setups[i].sinks = setups[i].before
        /\ setups[i].flag = setups[i].entered
    /\ SetupLockReleased

====
